---- MODULE Spec2Model ----
(***************************************************************************)
(* Model of the asynchronous task pipeline of go-image-vector:             *)
(*   queue/queue.go          the Redis-backed task queue and the           *)
(*                           per-task status / result records              *)
(*   worker (part_008 1-284) the worker pool: Start, Stop, processItems    *)
(*   main   (part_008 593-998, part_000) the producer (uploadImage) and    *)
(*                           the lifecycle controller (signal -> Stop)     *)
(*                                                                         *)
(* Every Redis command (RPUSH, BLPOP, SET, GET) is one atomic step; every  *)
(* goroutine is a process with a program counter.  The field eid and the     *)
(* variables enqLog, deqLog, handled, termWritten are history (ghost)      *)
(* state: the program does not read them.                                 *)
(***************************************************************************)
EXTENDS Integers, Sequences, FiniteSets, TLC

\* ------------------------------------------------------------- bounds
NumWorkers   == 2      \* N, the pool size handed to RunWorkers
NumProducers == 2      \* concurrent upload requests (HTTP handler goroutines)
MaxTasks     == 2      \* Enqueue calls per run
MaxClock     == 2      \* distinct values time.Now().UnixNano() can return
MaxItems     == 4      \* files in one batch upload (uploadImage allows up to 5)
MaxChunkSize == 3      \* largest max_chunk_size a batch task carries
MaxParallel  == 2      \* largest max_parallel a batch task carries

Workers   == 1..NumWorkers
Producers == 1..NumProducers
TaskIds   == 1..MaxClock

\* ------------------------------------------------------------- constants of the code
MediaProcessingQueue == "media_processing"
ImageProcessingQueue == "image_processing"
QueueNames == {MediaProcessingQueue, ImageProcessingQueue}

TaskTypeAnalyzeImage          == "analyze_image"
TaskTypeAnalyzeMultipleImages == "analyze_multiple_images"

\* The queue the pool polls: RunWorkers passes queue.ImageProcessingQueue.
WorkerQueueName == ImageProcessingQueue

\* The task types uploadImage enqueues (lines 685 and 726).
ProducerTaskTypes == {TaskTypeAnalyzeImage, TaskTypeAnalyzeMultipleImages}

\* The task types with a case in processItems' switch (lines 113-117).
RegisteredTaskTypes == {TaskTypeAnalyzeImage, TaskTypeAnalyzeMultipleImages}

\* A task type with no case in that switch: the one uploadMedia hands to
\* queue.Enqueue (part_008 line 369, declared in part_007 line 209).
TaskTypeAnalyzeMedia == "analyze_media"
OtherTaskTypes == {TaskTypeAnalyzeMedia}

\* Result payloads are maps (map[string]any): a nil map, marshalled as JSON
\* null; the map {"error": text} the worker builds from a handler error or for
\* an unknown task type; the record map of an analysis, whose fields the pool
\* never reads.
NilMap == [null |-> TRUE]
ErrorMap(text) == [error |-> text]
RecordMap == [record |-> TRUE]

\* Parts of a status response: the field is not in the response; no response.
Omitted == [omitted |-> TRUE]
NoResult == [none |-> TRUE]

NoTask == [task_id |-> 0, task_type |-> "none", eid |-> 0]

Terminal == {"completed", "failed"}

VARIABLES
    queue,        \* queue name -> Redis list of task envelopes
    status,       \* task id -> value of key task:<id>:status ("absent": no key)
    result,       \* task id -> value of key task:<id>:result (NoKey, or the JSON stored)
    ppc, ptask,   \* producer: position and the envelope it is enqueueing
    wpc, wtask,   \* worker loop: position and the task it dequeued
    werr, wres,   \* worker loop: processErr and result of the handler
    stopClosed,   \* stopChan has been closed
    signalled,    \* SIGINT/SIGTERM has been delivered to both sigChans
    mainPc,       \* lifecycle controller (main goroutine)
    listenerPc,   \* the signal-listener goroutine installed by Start
    doneRecv,     \* receives from doneChan completed by Stop
    proc,         \* the process: running, exited, fatal, panicClose, panicHandler
    enqLog,       \* ghost: task ids in RPUSH order (eid = position)
    deqLog,       \* ghost: eids in BLPOP order
    handled,      \* ghost: eid -> number of handler invocations
    termWritten,  \* ghost: eids whose terminal status write was performed
    werrored,     \* ghost: worker -> it has recorded a handler error
    midHandlerAtStop, \* ghost: eids whose handler was executing when Stop was called
    enqQueue,       \* ghost: eid -> the queue name its Enqueue call was given
    deqSeen,        \* worker -> what the Dequeue of its current iteration returned without a task
    wlog,           \* ghost: worker -> the steps it has taken for the task it holds
    resp,           \* the last response a polling client received
    \* --- one run of the batch handler (processMultipleImagesAnalysisTask)
    bpc,            \* position of the handler / of ParallelExtractTextFromImages
    imagePaths,     \* stringPaths: the batch's items, in submission order
    maxChunkSize,   \* items per inference call
    maxParallel,    \* capacity of the semaphore
    loopI,          \* i of the chunking loop
    chunks,         \* chunks built so far
    gpc,            \* chunk goroutine (by position in chunks) -> its position
    semHeld,        \* tokens in the channel sem
    resultChan,     \* buffered channel of chunkResult{index, text, err}
    chunkTexts,     \* the slice the collector fills
    recvOrder,      \* ghost: indexes of the results received, in receive order
    multiCalls,     \* ghost: multi-item inference calls issued
    callInputs,     \* ghost: the item lists those calls were issued with
    chunkFailed,    \* ghost: indexes of the chunks whose inference call failed
    synthCalls,     \* ghost: synthesis inference calls issued
    synthInput,     \* ghost: the chunk texts the synthesis call was issued with
    journeyText,    \* the batch's final text
    embedRequested, \* ghost: GenerateEmbedding was called
    persisted,      \* ghost: database.DB.Create stored the record
    bret,           \* what the handler returned: [err, res]
    batchTaskID,    \* task.TaskID of the batch task the handler runs on
    mediaRecords,   \* rows the handler created through database.DB.Create
    \* --- one run of the single-image handler (processImageAnalysisTask)
    ipc,            \* position of the handler and of the worker recording its return
    imageTask,      \* the task: [task_id, file_path], file_path as decoded from JSON
    icalls,         \* ghost: the external calls the handler made, in order
    iret,           \* what the handler returned: [err, res]
    \* --- the batch task's payload and the HTTP handlers of the server
    filePaths,      \* task.Data["file_paths"] of the batch task, as decoded from JSON
    searchResults,  \* the response of the last search request
    upl             \* one batch upload request: form values, enqueued task, response

vars == <<queue, status, result, ppc, ptask, wpc, wtask, werr, wres,
          stopClosed, signalled, mainPc, listenerPc, doneRecv, proc,
          enqLog, deqLog, handled, termWritten, werrored, midHandlerAtStop,
          enqQueue, deqSeen, wlog, resp,
          bpc, imagePaths, maxChunkSize, maxParallel, loopI, chunks, gpc,
          semHeld, resultChan, chunkTexts, recvOrder, multiCalls, callInputs,
          chunkFailed, synthCalls, synthInput, journeyText, embedRequested,
          persisted, bret, batchTaskID, mediaRecords,
          ipc, imageTask, icalls, iret, filePaths, searchResults, upl>>

\* The worker pool, the queue and the lifecycle controller.
pipelineVars == <<queue, status, result, ppc, ptask, wpc, wtask, werr, wres,
                  stopClosed, signalled, mainPc, listenerPc, doneRecv, proc,
                  enqLog, deqLog, handled, termWritten, werrored, midHandlerAtStop,
                  enqQueue, deqSeen, wlog, resp>>

\* One run of the batch handler.
batchVars == <<bpc, imagePaths, maxChunkSize, maxParallel, loopI, chunks, gpc,
               semHeld, resultChan, chunkTexts, recvOrder, multiCalls, callInputs,
               chunkFailed, synthCalls, synthInput, journeyText, embedRequested,
               persisted, bret, batchTaskID, mediaRecords, filePaths>>

\* The locals of a batch handler run, the table of records left aside.
batchRunVars == <<bpc, imagePaths, maxChunkSize, maxParallel, loopI, chunks, gpc,
                  semHeld, resultChan, chunkTexts, recvOrder, multiCalls, callInputs,
                  chunkFailed, synthCalls, synthInput, journeyText, embedRequested,
                  persisted, bret, batchTaskID, filePaths>>

\* The pool, the queue and the lifecycle controller, the status and result
\* records left aside.
poolVars == <<queue, ppc, ptask, wpc, wtask, werr, wres,
              stopClosed, signalled, mainPc, listenerPc, doneRecv, proc,
              enqLog, deqLog, handled, termWritten, werrored, midHandlerAtStop,
              enqQueue, deqSeen, wlog, resp>>

\* One run of the single-image handler.
imageVars == <<ipc, imageTask, icalls, iret>>

\* The HTTP handlers of the server: searchImages and one batch upload.
frontVars == <<searchResults, upl>>

\* What a step of the pool or of the batch handler leaves alone.
auxVars == <<imageVars, frontVars>>

\* ------------------------------------------------------------- queue/queue.go

\* Enqueue line 62: taskID := fmt.Sprintf("%d", time.Now().UnixNano())
NewTaskID(clock) == clock

\* Enqueue line 75: RPUSH appends at the tail of the list.
RPushHead(list, e) == <<e>> \o list
RPush(list, e) == Append(list, e)

\* Dequeue line 90: BLPOP returns the head of the list ...
BLPopItem(list) == Head(list)

\* ... and removes it from the list.
BLPopKeep(list) == list
BLPopRest(list) == Tail(list)

\* SetTaskStatus line 135: SET task:<id>:status <status> EX 24h
SetTaskStatus(store, taskID, s) == [store EXCEPT ![taskID] = s]

\* A key that does not exist: GET answers redis.Nil.
NoKey == [absent |-> TRUE]

\* StoreTaskResult line 149: SET task:<id>:result <json> EX 24h
StoreTaskResult(store, taskID, r) == [store EXCEPT ![taskID] = [json |-> r]]

\* GetTaskStatus lines 118-126: redis.Nil reads as "unknown".
GetTaskStatusRaw(taskID) == status[taskID]
GetTaskStatus(taskID) == IF status[taskID] = "absent" THEN "unknown" ELSE status[taskID]

\* GetTaskResult lines 158-172: redis.Nil reads as nil.
GetTaskResult(taskID) == IF result[taskID] = NoKey THEN NilMap ELSE result[taskID].json

\* ------------------------------------------------------------- status endpoint

\* getTaskStatus (part_008 lines 768-806), the handler of GET /tasks/{taskID}:
\* the response carries the result only when the status reads "completed"
\* (lines 783-799); for every other status it is {task_id, status} alone.
getTaskStatus(taskID) ==
    IF GetTaskStatus(taskID) = "completed"
    THEN [task_id |-> taskID, status |-> GetTaskStatus(taskID), result |-> GetTaskResult(taskID)]
    ELSE [task_id |-> taskID, status |-> GetTaskStatus(taskID), result |-> Omitted]

\* No client has polled yet.
NoResponse == [task_id |-> 0, status |-> "none", result |-> NoResult, err |-> "none"]

\* ------------------------------------------------------------- initial state
PipelineInit ==
    /\ queue = [q \in QueueNames |-> <<>>]
    /\ status = [t \in TaskIds |-> "absent"]
    /\ result = [t \in TaskIds |-> NoKey]
    /\ ppc = [p \in Producers |-> "idle"]
    /\ ptask = [p \in Producers |-> NoTask]
    /\ wpc = [w \in Workers |-> "select"]
    /\ wtask = [w \in Workers |-> NoTask]
    /\ werr = [w \in Workers |-> "nil"]
    /\ wres = [w \in Workers |-> NilMap]
    /\ stopClosed = FALSE
    /\ signalled = FALSE
    /\ mainPc = "waitSignal"
    /\ listenerPc = "waitSignal"
    /\ doneRecv = 0
    /\ proc = "running"
    /\ enqLog = <<>>
    /\ deqLog = <<>>
    /\ handled = <<>>
    /\ termWritten = {}
    /\ werrored = [w \in Workers |-> FALSE]
    /\ midHandlerAtStop = {}
    /\ enqQueue = <<>>
    /\ deqSeen = [w \in Workers |-> "none"]
    /\ wlog = [w \in Workers |-> <<>>]
    /\ resp = NoResponse

\* The batch handler's locals before it has read anything from the task.
NoReturn == [err |-> "nil", res |-> NilMap]

BatchLocalsInit ==
    /\ loopI = 0
    /\ chunks = <<>>
    /\ gpc = <<>>
    /\ semHeld = 0
    /\ resultChan = <<>>
    /\ chunkTexts = <<>>
    /\ recvOrder = <<>>
    /\ multiCalls = 0
    /\ callInputs = {}
    /\ chunkFailed = {}
    /\ synthCalls = 0
    /\ synthInput = <<>>
    /\ journeyText = <<>>
    /\ embedRequested = FALSE
    /\ persisted = FALSE
    /\ bret = NoReturn
    /\ mediaRecords = <<>>

\* task.Data["file_paths"] when every entry is a string: the JSON array of the
\* paths.
FilePathsOf(paths) ==
    [isList |-> TRUE, items |-> [j \in DOMAIN paths |-> [isString |-> TRUE, v |-> paths[j]]]]

\* No batch handler is running.
BatchIdle ==
    /\ bpc = "idle"
    /\ imagePaths = <<>>
    /\ maxChunkSize = 0
    /\ maxParallel = 0
    /\ batchTaskID = 0
    /\ filePaths = FilePathsOf(<<>>)
    /\ BatchLocalsInit

\* No single-image handler is running.
NoImageTask == [task_id |-> 0, file_path |-> [isString |-> FALSE, v |-> 0]]

ImageIdle ==
    /\ ipc = "idle"
    /\ imageTask = NoImageTask
    /\ icalls = <<>>
    /\ iret = NoReturn

\* No request has been served.
NoUpload == [pc |-> "idle"]

NoSearch == [code |-> 0, rows |-> <<>>, lookupFailed |-> {}]

FrontIdle ==
    /\ searchResults = NoSearch
    /\ upl = NoUpload

Init == PipelineInit /\ BatchIdle /\ ImageIdle /\ FrontIdle

\* ------------------------------------------------------------- producer (uploadImage)

Running == proc = "running"

\* uploadImage lines 685 / 726 call queue.Enqueue(queue.ImageProcessingQueue, ...)
\* with the task type chosen from batch_analyze.  Enqueue lines 62-80: the id is
\* the reading of time.Now().UnixNano() (two readings may be equal: concurrent
\* callers, the clock's resolution; the wall clock may also step back), the
\* envelope is RPUSHed and the id returned.
Enqueue(p) ==
    /\ Running
    /\ ppc[p] = "idle"
    /\ Len(enqLog) < MaxTasks
    /\ \E clock \in TaskIds, type \in ProducerTaskTypes :
         LET e == [task_id   |-> NewTaskID(clock),
                   task_type |-> type,
                   eid       |-> Len(enqLog) + 1]
         IN /\ queue' = [queue EXCEPT ![ImageProcessingQueue] = RPush(@, e)]
            /\ enqLog' = Append(enqLog, e.task_id)
            /\ handled' = Append(handled, 0)
            /\ ptask' = [ptask EXCEPT ![p] = e]
    /\ ppc' = [ppc EXCEPT ![p] = "setPending"]
    /\ UNCHANGED <<status, result, wpc, wtask, werr, wres, stopClosed,
                   signalled, mainPc, listenerPc, doneRecv, proc,
                   deqLog, termWritten, werrored, midHandlerAtStop>>
    /\ UNCHANGED batchVars
    /\ UNCHANGED auxVars
    /\ enqQueue' = Append(enqQueue, ImageProcessingQueue)
    /\ UNCHANGED <<deqSeen, wlog, resp>>

\* queue.Enqueue takes the task type as a string from its caller (line 57) and
\* RPUSHes whatever it is given: a caller that passes a type the pool has no
\* case for (uploadMedia's, line 369) on the queue the pool polls.  The caller
\* goes on to SetTaskStatus(taskID, "pending") like uploadImage (line 376).
EnqueueOtherType(p) ==
    /\ Running
    /\ ppc[p] = "idle"
    /\ Len(enqLog) < MaxTasks
    /\ \E clock \in TaskIds, type \in OtherTaskTypes :
         LET e == [task_id   |-> NewTaskID(clock),
                   task_type |-> type,
                   eid       |-> Len(enqLog) + 1]
         IN /\ queue' = [queue EXCEPT ![WorkerQueueName] = RPush(@, e)]
            /\ enqLog' = Append(enqLog, e.task_id)
            /\ handled' = Append(handled, 0)
            /\ ptask' = [ptask EXCEPT ![p] = e]
    /\ ppc' = [ppc EXCEPT ![p] = "setPending"]
    /\ UNCHANGED <<status, result, wpc, wtask, werr, wres, stopClosed,
                   signalled, mainPc, listenerPc, doneRecv, proc,
                   deqLog, termWritten, werrored, midHandlerAtStop>>
    /\ UNCHANGED batchVars
    /\ UNCHANGED auxVars
    /\ enqQueue' = Append(enqQueue, WorkerQueueName)
    /\ UNCHANGED <<deqSeen, wlog, resp>>

\* Enqueue line 75, Dequeue line 90: the Redis key of a queue is its name.
QueueKeyShared(queueName) == ImageProcessingQueue
QueueKey(queueName) == queueName

\* uploadMedia (part_008 lines 312-386), the upload handler of the server of
\* part_008 lines 286-592: line 369 calls queue.Enqueue(queue.MediaProcessingQueue,
\* worker.TaskTypeAnalyzeMedia, taskData), line 376 then writes "pending".
uploadMedia(p) ==
    /\ Running
    /\ ppc[p] = "idle"
    /\ Len(enqLog) < MaxTasks
    /\ \E clock \in TaskIds :
         LET e == [task_id   |-> NewTaskID(clock),
                   task_type |-> TaskTypeAnalyzeMedia,
                   eid       |-> Len(enqLog) + 1]
         IN /\ queue' = [queue EXCEPT ![QueueKey(MediaProcessingQueue)] = RPush(@, e)]
            /\ enqLog' = Append(enqLog, e.task_id)
            /\ handled' = Append(handled, 0)
            /\ ptask' = [ptask EXCEPT ![p] = e]
    /\ enqQueue' = Append(enqQueue, MediaProcessingQueue)
    /\ ppc' = [ppc EXCEPT ![p] = "setPending"]
    /\ UNCHANGED <<status, result, wpc, wtask, werr, wres, stopClosed,
                   signalled, mainPc, listenerPc, doneRecv, proc,
                   deqLog, termWritten, werrored, midHandlerAtStop>>
    /\ UNCHANGED batchVars
    /\ UNCHANGED auxVars
    /\ UNCHANGED <<deqSeen, wlog, resp>>

\* uploadImage lines 692 / 733: queue.SetTaskStatus(taskID, "pending").
ProducerSetPending(p) ==
    /\ Running
    /\ ppc[p] = "setPending"
    /\ status' = SetTaskStatus(status, ptask[p].task_id, "pending")
    /\ ppc' = [ppc EXCEPT ![p] = "idle"]
    /\ ptask' = [ptask EXCEPT ![p] = NoTask]
    /\ UNCHANGED <<queue, result, wpc, wtask, werr, wres, stopClosed,
                   signalled, mainPc, listenerPc, doneRecv, proc,
                   enqLog, deqLog, handled, termWritten, werrored, midHandlerAtStop>>
    /\ UNCHANGED batchVars
    /\ UNCHANGED auxVars
    /\ UNCHANGED <<enqQueue, deqSeen, wlog, resp>>

\* ------------------------------------------------------------- worker (processItems)

\* The handlers' possible returns, as [err, res, panic].
\* processImageAnalysisTask (lines 149-185): (record, nil) or (nil, err).
\* processMultipleImagesAnalysisTask (lines 188-277): the same, or a panic: a
\* negative max_parallel form value passes uploadImage's test of Sscanf's count
\* (line 711) and make(chan struct{}, maxParallel) panics in
\* services.ParallelExtractTextFromImages (ollama.go line 310).
\* default branch of the switch: no handler, processErr = nil, result flags it.
HandlerOutcomesUnknownFails(task) ==
    IF task.task_type = TaskTypeAnalyzeImage
    THEN {[err |-> "nil", res |-> RecordMap, panic |-> FALSE],
          [err |-> "error", res |-> NilMap, panic |-> FALSE]}
    ELSE IF task.task_type = TaskTypeAnalyzeMultipleImages
    THEN {[err |-> "nil", res |-> RecordMap, panic |-> FALSE],
          [err |-> "error", res |-> NilMap, panic |-> FALSE],
          [err |-> "nil", res |-> NilMap, panic |-> TRUE]}
    ELSE {[err |-> "unknown task type", res |-> NilMap, panic |-> FALSE]}
HandlerOutcomes(task) ==
    IF task.task_type = TaskTypeAnalyzeImage
    THEN {[err |-> "nil", res |-> RecordMap, panic |-> FALSE],
          [err |-> "error", res |-> NilMap, panic |-> FALSE]}
    ELSE IF task.task_type = TaskTypeAnalyzeMultipleImages
    THEN {[err |-> "nil", res |-> RecordMap, panic |-> FALSE],
          [err |-> "error", res |-> NilMap, panic |-> FALSE],
          [err |-> "nil", res |-> NilMap, panic |-> TRUE]}
    ELSE {[err |-> "nil", res |-> ErrorMap("unknown task type"), panic |-> FALSE]}

\* The number of handler calls the switch makes for a task (lines 113-123): one
\* for a registered type, none in the default branch.
HandlerInvocations(task) == IF task.task_type \in RegisteredTaskTypes THEN 1 ELSE 0

\* The handler call as a step of the worker for its task (lines 113-123).
HandlerSteps(task) == IF HandlerInvocations(task) > 0 THEN <<"handler">> ELSE <<>>

\* processItems lines 126-143: the terminal status chosen from processErr.
TerminalStatus(processErr) == IF processErr # "nil" THEN "failed" ELSE "completed"

\* processItems lines 131-142: the payload stored as the task's result.
ResultPayload(processErr, res) ==
    IF processErr # "nil" THEN ErrorMap(processErr) ELSE res

\* Where the loop goes after recording a task's outcome: back to the select.
AfterRecordExit(processErr) == IF processErr # "nil" THEN "deferSend" ELSE "select"
AfterRecord(processErr) == "select"

\* processItems lines 84-87: select on stopChan with a default branch.
WorkerSelect(w) ==
    /\ Running
    /\ wpc[w] = "select"
    /\ wpc' = [wpc EXCEPT ![w] = IF stopClosed THEN "deferSend" ELSE "dequeue"]
    /\ deqSeen' = [deqSeen EXCEPT ![w] = "none"]
    /\ UNCHANGED <<queue, status, result, ppc, ptask, wtask, werr, wres,
                   stopClosed, signalled, mainPc, listenerPc, doneRecv, proc,
                   enqLog, deqLog, handled, termWritten, werrored, midHandlerAtStop>>
    /\ UNCHANGED batchVars
    /\ UNCHANGED auxVars
    /\ UNCHANGED <<enqQueue, wlog, resp>>

\* processItems line 89, Dequeue lines 90-109: BLPOP hands over the head.
\* processItems lines 102-107: with a task in hand the loop first writes the
\* status processing.
AfterDequeueTaskToHandler == "handler"
AfterDequeueTask == "setProcessing"

WorkerDequeueTask(w) ==
    /\ Running
    /\ wpc[w] = "dequeue"
    /\ queue[WorkerQueueName] # <<>>
    /\ LET t == BLPopItem(queue[WorkerQueueName])
       IN /\ wtask' = [wtask EXCEPT ![w] = t]
          /\ deqLog' = Append(deqLog, t.eid)
    /\ queue' = [queue EXCEPT ![WorkerQueueName] = BLPopRest(@)]
    /\ wpc' = [wpc EXCEPT ![w] = AfterDequeueTask]
    /\ UNCHANGED <<status, result, ppc, ptask, werr, wres, stopClosed,
                   signalled, mainPc, listenerPc, doneRecv, proc,
                   enqLog, handled, termWritten, werrored, midHandlerAtStop>>
    /\ UNCHANGED batchVars
    /\ UNCHANGED auxVars
    /\ UNCHANGED <<enqQueue, deqSeen, wlog, resp>>

\* Dequeue lines 90-95 on a list that stays empty for the whole timeout (5 s,
\* processItems line 89): BLPOP answers redis.Nil, which Dequeue turns into
\* (nil, nil); the list is as it was.
\* processItems lines 88-100: the (task, err) of an iteration whose Dequeue gave
\* no task, as the loop sees it until its next iteration begins.
DequeueSeen(err) == IF err # "nil" THEN "error" ELSE "idle"

DequeueOnEmptyAsError(list) == [task |-> NoTask, err |-> "redis: nil", list |-> list]
DequeueOnEmpty(list) == [task |-> NoTask, err |-> "nil", list |-> list]

\* processItems lines 96-100, Dequeue lines 92-94: the timeout elapses on an
\* empty list, Dequeue returns (nil, nil), the loop sleeps and polls again.
WorkerDequeueIdle(w) ==
    /\ Running
    /\ wpc[w] = "dequeue"
    /\ queue[WorkerQueueName] = <<>>
    /\ LET r == DequeueOnEmpty(queue[WorkerQueueName])
       IN /\ queue' = [queue EXCEPT ![WorkerQueueName] = r.list]
          /\ wtask' = [wtask EXCEPT ![w] = r.task]
          /\ deqSeen' = [deqSeen EXCEPT ![w] = DequeueSeen(r.err)]
    /\ wpc' = [wpc EXCEPT ![w] = "select"]
    /\ UNCHANGED <<status, result, ppc, ptask, werr, wres,
                   stopClosed, signalled, mainPc, listenerPc, doneRecv, proc,
                   enqLog, deqLog, handled, termWritten, werrored, midHandlerAtStop>>
    /\ UNCHANGED batchVars
    /\ UNCHANGED auxVars
    /\ UNCHANGED <<enqQueue, wlog, resp>>

\* processItems lines 104-107: SetTaskStatus(task.TaskID, "processing").
WorkerSetProcessing(w) ==
    /\ Running
    /\ wpc[w] = "setProcessing"
    /\ status' = SetTaskStatus(status, wtask[w].task_id, "processing")
    /\ wpc' = [wpc EXCEPT ![w] = "handler"]
    /\ UNCHANGED <<queue, result, ppc, ptask, wtask, werr, wres, stopClosed,
                   signalled, mainPc, listenerPc, doneRecv, proc,
                   enqLog, deqLog, handled, termWritten, werrored, midHandlerAtStop>>
    /\ UNCHANGED batchVars
    /\ UNCHANGED auxVars
    /\ wlog' = [wlog EXCEPT ![w] = Append(@, "processing")]
    /\ UNCHANGED <<enqQueue, deqSeen, resp>>

\* processItems lines 78-81: the deferred function of the loop only sends on
\* doneChan; the task of a worker that unwinds is not put back on its queue.
QueueOnPanicRequeue(list, task) == Append(list, task)
QueueOnPanic(list, task) == list

\* processItems lines 110-139: the switch invokes the handler, which returns
\* (result, processErr) or panics; on a return the worker writes the terminal
\* status, SetTaskStatus(failed | completed); a panic unwinds into the deferred
\* function of lines 78-81.
WorkerHandler(w) ==
    /\ Running
    /\ wpc[w] = "handler"
    /\ \E o \in HandlerOutcomes(wtask[w]) :
         /\ werr' = [werr EXCEPT ![w] = o.err]
         /\ wres' = [wres EXCEPT ![w] = o.res]
         /\ IF o.panic
            THEN /\ wpc' = [wpc EXCEPT ![w] = "panicDefer"]
                 /\ wlog' = [wlog EXCEPT ![w] = @ \o HandlerSteps(wtask[w])]
                 /\ queue' = [queue EXCEPT ![WorkerQueueName] = QueueOnPanic(@, wtask[w])]
                 /\ UNCHANGED <<status, termWritten>>
            ELSE /\ wpc' = [wpc EXCEPT ![w] = "storeResult"]
                 /\ wlog' = [wlog EXCEPT ![w] = (@ \o HandlerSteps(wtask[w])) \o <<"terminal">>]
                 /\ status' = SetTaskStatus(status, wtask[w].task_id, TerminalStatus(o.err))
                 /\ termWritten' = termWritten \cup {wtask[w].eid}
                 /\ UNCHANGED queue
    /\ handled' = [handled EXCEPT ![wtask[w].eid] = @ + HandlerInvocations(wtask[w])]
    /\ UNCHANGED <<result, ppc, ptask, wtask, stopClosed,
                   signalled, mainPc, listenerPc, doneRecv, proc,
                   enqLog, deqLog, werrored, midHandlerAtStop>>
    /\ UNCHANGED batchVars
    /\ UNCHANGED auxVars
    /\ UNCHANGED <<enqQueue, deqSeen, resp>>

\* processItems lines 131-135 / 140-142: StoreTaskResult, then the next iteration.
WorkerStoreResult(w) ==
    /\ Running
    /\ wpc[w] = "storeResult"
    /\ result' = StoreTaskResult(result, wtask[w].task_id, ResultPayload(werr[w], wres[w]))
    /\ wpc' = [wpc EXCEPT ![w] = AfterRecord(werr[w])]
    /\ wtask' = [wtask EXCEPT ![w] = NoTask]
    /\ werrored' = [werrored EXCEPT ![w] = @ \/ werr[w] # "nil"]
    /\ werr' = [werr EXCEPT ![w] = "nil"]
    /\ wres' = [wres EXCEPT ![w] = NilMap]
    /\ UNCHANGED <<queue, status, ppc, ptask, stopClosed,
                   signalled, mainPc, listenerPc, doneRecv, proc,
                   enqLog, deqLog, handled, termWritten, midHandlerAtStop>>
    /\ UNCHANGED batchVars
    /\ UNCHANGED auxVars
    /\ wlog' = [wlog EXCEPT ![w] = <<>>]
    /\ UNCHANGED <<enqQueue, deqSeen, resp>>

\* processItems lines 78-81: the deferred function is the last thing the loop's
\* goroutine runs; after its send the goroutine is over.
AfterDoneSendResumes == "select"
AfterDoneSend == "stopped"

\* processItems lines 78-81: the deferred send on the unbuffered doneChan
\* completes when Stop (line 69) receives it.
WorkerSendDone(w) ==
    /\ Running
    /\ wpc[w] = "deferSend"
    /\ mainPc = "stopWait"
    /\ doneRecv < NumWorkers
    /\ doneRecv' = doneRecv + 1
    /\ wpc' = [wpc EXCEPT ![w] = AfterDoneSend]
    /\ UNCHANGED <<queue, status, result, ppc, ptask, wtask, werr, wres,
                   stopClosed, signalled, mainPc, listenerPc, proc,
                   enqLog, deqLog, handled, termWritten, werrored, midHandlerAtStop>>
    /\ UNCHANGED batchVars
    /\ UNCHANGED auxVars
    /\ UNCHANGED <<enqQueue, deqSeen, wlog, resp>>

\* The same deferred send, run while a handler panic unwinds the goroutine
\* (processItems has no recover).
WorkerPanicSendDone(w) ==
    /\ Running
    /\ wpc[w] = "panicDefer"
    /\ mainPc = "stopWait"
    /\ doneRecv < NumWorkers
    /\ doneRecv' = doneRecv + 1
    /\ wpc' = [wpc EXCEPT ![w] = "panicking"]
    /\ UNCHANGED <<queue, status, result, ppc, ptask, wtask, werr, wres,
                   stopClosed, signalled, mainPc, listenerPc, proc,
                   enqLog, deqLog, handled, termWritten, werrored, midHandlerAtStop>>
    /\ UNCHANGED batchVars
    /\ UNCHANGED auxVars
    /\ UNCHANGED <<enqQueue, deqSeen, wlog, resp>>

\* After the deferred function returns, the unrecovered panic ends the process.
WorkerCrash(w) ==
    /\ Running
    /\ wpc[w] = "panicking"
    /\ proc' = "panicHandler"
    /\ UNCHANGED <<queue, status, result, ppc, ptask, wpc, wtask, werr, wres,
                   stopClosed, signalled, mainPc, listenerPc, doneRecv,
                   enqLog, deqLog, handled, termWritten, werrored, midHandlerAtStop>>
    /\ UNCHANGED batchVars
    /\ UNCHANGED auxVars
    /\ UNCHANGED <<enqQueue, deqSeen, wlog, resp>>

\* ------------------------------------------------------------- backend errors in the worker loop

\* Dequeue lines 90-95: BLPOP fails with an error other than redis.Nil (the
\* backend is unreachable); Dequeue returns (nil, err) and the list is untouched.
DequeueOnError(list) == [task |-> NoTask, err |-> "backend unavailable", list |-> list]

\* processItems lines 90-94: the error is logged, the loop sleeps one second and
\* continues with its next iteration.
AfterDequeueErrorExit == "deferSend"
AfterDequeueError == "select"

WorkerDequeueError(w) ==
    /\ Running
    /\ wpc[w] = "dequeue"
    /\ LET r == DequeueOnError(queue[WorkerQueueName])
       IN /\ queue' = [queue EXCEPT ![WorkerQueueName] = r.list]
          /\ wtask' = [wtask EXCEPT ![w] = r.task]
          /\ deqSeen' = [deqSeen EXCEPT ![w] = DequeueSeen(r.err)]
    /\ wpc' = [wpc EXCEPT ![w] = AfterDequeueError]
    /\ UNCHANGED <<status, result, ppc, ptask, werr, wres, stopClosed,
                   signalled, mainPc, listenerPc, doneRecv, proc,
                   enqLog, deqLog, handled, termWritten, werrored, midHandlerAtStop>>
    /\ UNCHANGED batchVars
    /\ UNCHANGED auxVars
    /\ UNCHANGED <<enqQueue, wlog, resp>>

\* processItems lines 104-107: SetTaskStatus(task.TaskID, "processing") returns
\* an error; it is logged and the loop goes on to the handler.
WorkerSetProcessingFails(w) ==
    /\ Running
    /\ wpc[w] = "setProcessing"
    /\ wpc' = [wpc EXCEPT ![w] = "handler"]
    /\ wlog' = [wlog EXCEPT ![w] = Append(@, "processing")]
    /\ UNCHANGED <<queue, status, result, ppc, ptask, wtask, werr, wres, stopClosed,
                   signalled, mainPc, listenerPc, doneRecv, proc,
                   enqLog, deqLog, handled, termWritten, werrored, midHandlerAtStop>>
    /\ UNCHANGED batchVars
    /\ UNCHANGED auxVars
    /\ UNCHANGED <<enqQueue, deqSeen, resp>>

\* processItems lines 127-129 / 137-139: the handler has returned and the
\* SetTaskStatus of the terminal status returns an error; it is logged and the
\* loop goes on to StoreTaskResult.
WorkerTerminalStatusFails(w) ==
    /\ Running
    /\ wpc[w] = "handler"
    /\ \E o \in {x \in HandlerOutcomes(wtask[w]) : ~x.panic} :
         /\ werr' = [werr EXCEPT ![w] = o.err]
         /\ wres' = [wres EXCEPT ![w] = o.res]
    /\ wpc' = [wpc EXCEPT ![w] = "storeResult"]
    /\ wlog' = [wlog EXCEPT ![w] = (@ \o HandlerSteps(wtask[w])) \o <<"terminal">>]
    /\ handled' = [handled EXCEPT ![wtask[w].eid] = @ + HandlerInvocations(wtask[w])]
    /\ UNCHANGED <<queue, status, result, ppc, ptask, wtask, stopClosed,
                   signalled, mainPc, listenerPc, doneRecv, proc,
                   enqLog, deqLog, termWritten, werrored, midHandlerAtStop>>
    /\ UNCHANGED batchVars
    /\ UNCHANGED auxVars
    /\ UNCHANGED <<enqQueue, deqSeen, resp>>

\* processItems lines 130-134 / 140-142: StoreTaskResult returns an error; it is
\* logged and the loop continues with its next iteration.
WorkerStoreResultFails(w) ==
    /\ Running
    /\ wpc[w] = "storeResult"
    /\ wpc' = [wpc EXCEPT ![w] = AfterRecord(werr[w])]
    /\ wtask' = [wtask EXCEPT ![w] = NoTask]
    /\ werrored' = [werrored EXCEPT ![w] = @ \/ werr[w] # "nil"]
    /\ werr' = [werr EXCEPT ![w] = "nil"]
    /\ wres' = [wres EXCEPT ![w] = NilMap]
    /\ wlog' = [wlog EXCEPT ![w] = <<>>]
    /\ UNCHANGED <<queue, status, result, ppc, ptask, stopClosed,
                   signalled, mainPc, listenerPc, doneRecv, proc,
                   enqLog, deqLog, handled, termWritten, midHandlerAtStop>>
    /\ UNCHANGED batchVars
    /\ UNCHANGED auxVars
    /\ UNCHANGED <<enqQueue, deqSeen, resp>>

\* ------------------------------------------------------------- readers and expiry

\* SetTaskStatus line 135 and StoreTaskResult line 149 give each key a TTL of 24
\* hours: the status record of a task expires.
ExpireStatus(t) ==
    /\ Running
    /\ status[t] # "absent"
    /\ status' = [status EXCEPT ![t] = "absent"]
    /\ UNCHANGED <<queue, result, ppc, ptask, wpc, wtask, werr, wres, stopClosed,
                   signalled, mainPc, listenerPc, doneRecv, proc,
                   enqLog, deqLog, handled, termWritten, werrored, midHandlerAtStop>>
    /\ UNCHANGED batchVars
    /\ UNCHANGED auxVars
    /\ UNCHANGED <<enqQueue, deqSeen, wlog, resp>>

\* The result record of a task expires.
ExpireResult(t) ==
    /\ Running
    /\ result[t] # NoKey
    /\ result' = [result EXCEPT ![t] = NoKey]
    /\ UNCHANGED <<queue, status, ppc, ptask, wpc, wtask, werr, wres, stopClosed,
                   signalled, mainPc, listenerPc, doneRecv, proc,
                   enqLog, deqLog, handled, termWritten, werrored, midHandlerAtStop>>
    /\ UNCHANGED batchVars
    /\ UNCHANGED auxVars
    /\ UNCHANGED <<enqQueue, deqSeen, wlog, resp>>

\* A caller applies GetTaskStatus (queue.go lines 113-127) to a task id: one GET
\* of the status key, on a reachable backend.
CallGetTaskStatus(t) ==
    /\ Running
    /\ resp' = [task_id |-> t, status |-> GetTaskStatus(t), result |-> NoResult, err |-> "nil"]
    /\ UNCHANGED <<queue, status, result, ppc, ptask, wpc, wtask, werr, wres, stopClosed,
                   signalled, mainPc, listenerPc, doneRecv, proc,
                   enqLog, deqLog, handled, termWritten, werrored, midHandlerAtStop>>
    /\ UNCHANGED batchVars
    /\ UNCHANGED auxVars
    /\ UNCHANGED <<enqQueue, deqSeen, wlog>>

\* A caller applies GetTaskResult (queue.go lines 153-173) to a task id: one GET
\* of the result key, on a reachable backend.
CallGetTaskResult(t) ==
    /\ Running
    /\ resp' = [task_id |-> t, status |-> "none", result |-> GetTaskResult(t), err |-> "nil"]
    /\ UNCHANGED <<queue, status, result, ppc, ptask, wpc, wtask, werr, wres, stopClosed,
                   signalled, mainPc, listenerPc, doneRecv, proc,
                   enqLog, deqLog, handled, termWritten, werrored, midHandlerAtStop>>
    /\ UNCHANGED batchVars
    /\ UNCHANGED auxVars
    /\ UNCHANGED <<enqQueue, deqSeen, wlog>>

\* ------------------------------------------------------------- lifecycle (Start, Stop, main)

\* The operating system delivers SIGINT/SIGTERM: signal.Notify hands it to every
\* registered channel, Start's sigChan (line 53) and main's (part_000 line 56).
Signal ==
    /\ Running
    /\ ~signalled
    /\ signalled' = TRUE
    /\ UNCHANGED <<queue, status, result, ppc, ptask, wpc, wtask, werr, wres,
                   stopClosed, mainPc, listenerPc, doneRecv, proc,
                   enqLog, deqLog, handled, termWritten, werrored, midHandlerAtStop>>
    /\ UNCHANGED batchVars
    /\ UNCHANGED auxVars
    /\ UNCHANGED <<enqQueue, deqSeen, wlog, resp>>

\* close(w.stopChan): closing a closed channel panics and ends the process.
CloseStopChan(closed) ==
    IF closed THEN [closed |-> TRUE, proc |-> "panicClose"]
              ELSE [closed |-> TRUE, proc |-> "running"]

\* Start lines 55-59: the listener goroutine receives the signal and closes stopChan.
ListenerClose ==
    /\ Running
    /\ listenerPc = "waitSignal"
    /\ signalled
    /\ stopClosed' = CloseStopChan(stopClosed).closed
    /\ proc' = CloseStopChan(stopClosed).proc
    /\ listenerPc' = "done"
    /\ UNCHANGED <<queue, status, result, ppc, ptask, wpc, wtask, werr, wres,
                   signalled, mainPc, doneRecv,
                   enqLog, deqLog, handled, termWritten, werrored, midHandlerAtStop>>
    /\ UNCHANGED batchVars
    /\ UNCHANGED auxVars
    /\ UNCHANGED <<enqQueue, deqSeen, wlog, resp>>

\* main (part_000 lines 57-60; part_008 lines 950-968 then the deferred call of
\* line 897) receives the signal and calls Stop, whose line 65 closes stopChan.
MainStop ==
    /\ Running
    /\ mainPc = "waitSignal"
    /\ signalled
    /\ stopClosed' = CloseStopChan(stopClosed).closed
    /\ proc' = CloseStopChan(stopClosed).proc
    /\ mainPc' = "stopWait"
    /\ midHandlerAtStop' = {wtask[w].eid : w \in {x \in Workers : wpc[x] = "handler"}}
    /\ UNCHANGED <<queue, status, result, ppc, ptask, wpc, wtask, werr, wres,
                   signalled, listenerPc, doneRecv,
                   enqLog, deqLog, handled, termWritten, werrored>>
    /\ UNCHANGED batchVars
    /\ UNCHANGED auxVars
    /\ UNCHANGED <<enqQueue, deqSeen, wlog, resp>>

\* main (part_008 lines 956-967): srv.Shutdown fails or times out and log.Fatalf
\* exits the process; the deferred Stop never runs.
MainFatal ==
    /\ Running
    /\ mainPc = "waitSignal"
    /\ signalled
    /\ proc' = "fatal"
    /\ UNCHANGED <<queue, status, result, ppc, ptask, wpc, wtask, werr, wres,
                   stopClosed, signalled, mainPc, listenerPc, doneRecv,
                   enqLog, deqLog, handled, termWritten, werrored, midHandlerAtStop>>
    /\ UNCHANGED batchVars
    /\ UNCHANGED auxVars
    /\ UNCHANGED <<enqQueue, deqSeen, wlog, resp>>

\* Stop lines 68-72: the loop has received numWorkers times; Stop returns.
StopReceivesNeeded(n) == n
StopReturn ==
    /\ Running
    /\ mainPc = "stopWait"
    /\ doneRecv = StopReceivesNeeded(NumWorkers)
    /\ mainPc' = "stopReturned"
    /\ UNCHANGED <<queue, status, result, ppc, ptask, wpc, wtask, werr, wres,
                   stopClosed, signalled, listenerPc, doneRecv, proc,
                   enqLog, deqLog, handled, termWritten, werrored, midHandlerAtStop>>
    /\ UNCHANGED batchVars
    /\ UNCHANGED auxVars
    /\ UNCHANGED <<enqQueue, deqSeen, wlog, resp>>

\* main returns after Stop (part_000 lines 61-62): the process exits normally.
MainReturn ==
    /\ Running
    /\ mainPc = "stopReturned"
    /\ mainPc' = "returned"
    /\ proc' = "exited"
    /\ UNCHANGED <<queue, status, result, ppc, ptask, wpc, wtask, werr, wres,
                   stopClosed, signalled, listenerPc, doneRecv,
                   enqLog, deqLog, handled, termWritten, werrored, midHandlerAtStop>>
    /\ UNCHANGED batchVars
    /\ UNCHANGED auxVars
    /\ UNCHANGED <<enqQueue, deqSeen, wlog, resp>>

\* ------------------------------------------------------------- batch handler
\* processMultipleImagesAnalysisTask (part_008 lines 188-277) and
\* services.ParallelExtractTextFromImages (ollama.go lines 282-392).

\* The values a batch task can carry.  uploadImage accepts 1..5 files (lines
\* 634-642); max_chunk_size and max_parallel come from the form through
\* fmt.Sscanf, whose test (lines 705, 711) is on the count of parsed items, so
\* any integer gets through: zero and negative values included.
ItemCounts    == 1..MaxItems
ChunkSizes    == (0 - 1)..MaxChunkSize
ParallelSizes == (0 - 1)..MaxParallel

\* The items are distinct paths; item j is the j-th file of the upload.
PathsOf(n) == [j \in 1..n |-> j]

\* ExtractTextFromMultipleImages (ollama.go lines 201-280) on success: the text
\* the inference service returns for these items, in this order.  The text is
\* identified by the item list it describes.
ExtractTextFromMultipleImages(paths) == paths

\* The synthesis call (ollama.go lines 338-391) on success: one narrative made
\* from the chunk texts in the order of the slice (fmt.Sprintf("%s", chunkTexts)).
RECURSIVE SynthesisText(_)
SynthesisText(texts) ==
    IF texts = <<>> THEN <<>> ELSE Head(texts) \o SynthesisText(Tail(texts))

\* processMultipleImagesAnalysisTask line 229 (and ollama.go line 288):
\* len(stringPaths) <= maxChunkSize takes the single-call path.
TakesDirectPathStrict(n, k) == n < k
TakesDirectPath(n, k) == n <= k

\* ollama.go lines 294-297: end := i + maxChunkSize, clamped to len(imagePaths).
ChunkEndDropsTail(i, k, n) == IF i + k > n THEN n - 1 ELSE i + k
ChunkEnd(i, k, n) == IF i + k > n THEN n ELSE i + k

\* ollama.go line 298: imagePaths[i:end] (0-based, end exclusive).
Slice(paths, i, end) == SubSeq(paths, i + 1, end)

\* ollama.go line 314: sem <- struct{}{} completes while the buffer has room; a
\* channel of capacity 0 has no receiver here and never accepts the send.
SemAcquirableAlways(held, capacity) == TRUE
SemAcquirable(held, capacity) == held < capacity

\* ollama.go line 309: make(chan chunkResult, len(chunks)), the capacity of the
\* result channel.
ResultChanCapacityOne(cs) == 1
ResultChanCapacity(cs) == Len(cs)

\* ollama.go line 330: chunkTexts[result.index] = result.text (0-based index).
CollectPositionArrival(index, received) == received + 1
CollectPosition(index, received) == index + 1

\* ollama.go lines 327-329: a result carrying an error ends the collection.
CollectAbortsNever(err) == FALSE
CollectAborts(err) == err # "nil"

\* ollama.go lines 334-336: a single chunk's text is returned as it is.
NeedsSynthesisOverTwo(texts) == Len(texts) > 2
NeedsSynthesis(texts) == Len(texts) # 1

\* The outcomes of one call of an external service: it returns or it fails.
CallOutcomes == {"nil", "error"}

\* part_008 lines 152-154, 190-192, 203-205: the payload has no usable path and
\* the handler returns (nil, nil).
MalformedReturnError == [err |-> "invalid payload", res |-> NilMap]
MalformedReturn == [err |-> "nil", res |-> NilMap]

\* The values task.Data["file_paths"] can have after json.Unmarshal: not a list
\* (a string, a number, nothing), or a list whose entry j is the string path of
\* item j or something that is not a string.
RECURSIVE EntryLists(_)
EntryLists(n) ==
    IF n = 0 THEN {<<>>}
    ELSE LET shorter == EntryLists(n - 1)
         IN shorter \cup
            {Append(l, [isString |-> b, v |-> Len(l) + 1]) :
                l \in {x \in shorter : Len(x) = n - 1}, b \in BOOLEAN}

RawFilePaths ==
    {[isList |-> FALSE, items |-> <<>>]} \cup
    {[isList |-> TRUE, items |-> l] : l \in EntryLists(MaxItems)}

\* part_008 lines 195-201: the loop that keeps the entries that are strings, in
\* their order.
RECURSIVE StringPaths(_)
StringPaths(items) ==
    IF items = <<>> THEN <<>>
    ELSE IF Head(items).isString
         THEN <<Head(items).v>> \o StringPaths(Tail(items))
         ELSE StringPaths(Tail(items))

\* The handler returns (nil, err).
BatchFail(err) ==
    /\ bpc' = "returned"
    /\ bret' = [err |-> err, res |-> NilMap]

\* part_008 lines 189-205: the type assertion on task.Data["file_paths"] and the
\* conversion to stringPaths; without a list, or without a string in it, the
\* handler returns (nil, nil).
BatchParse ==
    /\ bpc = "parse"
    /\ IF filePaths.isList /\ StringPaths(filePaths.items) # <<>>
       THEN /\ imagePaths' = StringPaths(filePaths.items)
            /\ bpc' = "handler"
            /\ UNCHANGED bret
       ELSE /\ bpc' = "returned"
            /\ bret' = MalformedReturn
            /\ UNCHANGED imagePaths
    /\ UNCHANGED <<maxChunkSize, maxParallel, loopI, chunks, gpc, semHeld,
                   resultChan, chunkTexts, recvOrder, multiCalls, callInputs,
                   chunkFailed, synthCalls, synthInput, journeyText,
                   embedRequested, persisted>>
    /\ UNCHANGED pipelineVars
    /\ UNCHANGED auxVars
    /\ UNCHANGED <<batchTaskID, mediaRecords, filePaths>>

\* processItems lines 125-129 / 136-139 for the batch task: its terminal status.
BatchTaskSetTerminal ==
    /\ bpc = "returned"
    /\ status' = SetTaskStatus(status, batchTaskID, TerminalStatus(bret.err))
    /\ bpc' = "storeResult"
    /\ UNCHANGED <<imagePaths, maxChunkSize, maxParallel, loopI, chunks, gpc, semHeld,
                   resultChan, chunkTexts, recvOrder, multiCalls, callInputs,
                   chunkFailed, synthCalls, synthInput, journeyText,
                   embedRequested, persisted, bret>>
    /\ UNCHANGED <<result, poolVars>>
    /\ UNCHANGED auxVars
    /\ UNCHANGED <<batchTaskID, mediaRecords, filePaths>>

\* processItems lines 130-134 / 140-142 for the batch task: its result.
BatchTaskStoreResult ==
    /\ bpc = "storeResult"
    /\ result' = StoreTaskResult(result, batchTaskID, ResultPayload(bret.err, bret.res))
    /\ bpc' = "recorded"
    /\ UNCHANGED <<imagePaths, maxChunkSize, maxParallel, loopI, chunks, gpc, semHeld,
                   resultChan, chunkTexts, recvOrder, multiCalls, callInputs,
                   chunkFailed, synthCalls, synthInput, journeyText,
                   embedRequested, persisted, bret>>
    /\ UNCHANGED <<status, poolVars>>
    /\ UNCHANGED auxVars
    /\ UNCHANGED <<batchTaskID, mediaRecords, filePaths>>

\* part_008 lines 229-231: the batch is small, one multi-item inference call
\* with all items; its text is the final text (line 240 on an error).
BatchDirectCall ==
    /\ bpc = "handler"
    /\ TakesDirectPath(Len(imagePaths), maxChunkSize)
    /\ multiCalls' = multiCalls + 1
    /\ callInputs' = callInputs \cup {imagePaths}
    /\ \E o \in CallOutcomes :
         IF o # "nil"
         THEN /\ BatchFail("inference error")
              /\ UNCHANGED journeyText
         ELSE /\ journeyText' = ExtractTextFromMultipleImages(imagePaths)
              /\ bpc' = "embed"
              /\ UNCHANGED bret
    /\ UNCHANGED <<imagePaths, maxChunkSize, maxParallel, loopI, chunks, gpc,
                   semHeld, resultChan, chunkTexts, recvOrder, chunkFailed,
                   synthCalls, synthInput, embedRequested, persisted>>
    /\ UNCHANGED pipelineVars
    /\ UNCHANGED auxVars
    /\ UNCHANGED <<batchTaskID, mediaRecords, filePaths>>

\* part_008 lines 232-233, ollama.go lines 283-293: the batch is larger than one
\* chunk; ParallelExtractTextFromImages starts its chunking loop at i = 0.
BatchEnterParallel ==
    /\ bpc = "handler"
    /\ ~TakesDirectPath(Len(imagePaths), maxChunkSize)
    /\ bpc' = "chunking"
    /\ loopI' = 0
    /\ chunks' = <<>>
    /\ UNCHANGED <<imagePaths, maxChunkSize, maxParallel, gpc, semHeld,
                   resultChan, chunkTexts, recvOrder, multiCalls, callInputs,
                   chunkFailed, synthCalls, synthInput, journeyText,
                   embedRequested, persisted, bret>>
    /\ UNCHANGED pipelineVars
    /\ UNCHANGED auxVars
    /\ UNCHANGED <<batchTaskID, mediaRecords, filePaths>>

\* ollama.go lines 293-300, one iteration of the loop: a negative chunk size
\* makes end < i and the slice expression panics; a chunk size of 0 never
\* advances i, the loop appends empty chunks without end (followed here for as
\* many iterations as there are items, and one more).
BatchChunkStep ==
    /\ bpc = "chunking"
    /\ loopI < Len(imagePaths)
    /\ Len(chunks) <= Len(imagePaths)
    /\ LET end == ChunkEnd(loopI, maxChunkSize, Len(imagePaths))
       IN IF end < loopI
          THEN /\ bpc' = "panicked"
               /\ UNCHANGED <<chunks, loopI>>
          ELSE /\ chunks' = Append(chunks, Slice(imagePaths, loopI, end))
               /\ loopI' = loopI + maxChunkSize
               /\ UNCHANGED bpc
    /\ UNCHANGED <<imagePaths, maxChunkSize, maxParallel, gpc, semHeld,
                   resultChan, chunkTexts, recvOrder, multiCalls, callInputs,
                   chunkFailed, synthCalls, synthInput, journeyText,
                   embedRequested, persisted, bret>>
    /\ UNCHANGED pipelineVars
    /\ UNCHANGED auxVars
    /\ UNCHANGED <<batchTaskID, mediaRecords, filePaths>>

\* ollama.go lines 309-324: the loop is over; make(chan struct{}, maxParallel)
\* panics on a negative capacity; otherwise one goroutine per chunk is started
\* and chunkTexts is allocated with one empty string per chunk.
BatchSpawn ==
    /\ bpc = "chunking"
    /\ loopI >= Len(imagePaths)
    /\ IF maxParallel < 0
       THEN /\ bpc' = "panicked"
            /\ UNCHANGED <<gpc, chunkTexts>>
       ELSE /\ bpc' = "collect"
            /\ gpc' = [i \in DOMAIN chunks |-> "acquire"]
            /\ chunkTexts' = [i \in DOMAIN chunks |-> <<>>]
    /\ UNCHANGED <<imagePaths, maxChunkSize, maxParallel, loopI, chunks,
                   semHeld, resultChan, recvOrder, multiCalls, callInputs,
                   chunkFailed, synthCalls, synthInput, journeyText,
                   embedRequested, persisted, bret>>
    /\ UNCHANGED pipelineVars
    /\ UNCHANGED auxVars
    /\ UNCHANGED <<batchTaskID, mediaRecords, filePaths>>

\* The chunk inference calls in flight: semaphore acquired, call not yet returned.
InFlight == {i \in DOMAIN gpc : gpc[i] = "call"}

\* ollama.go lines 314, 318: chunk goroutine i acquires the semaphore and issues
\* its inference call.
ChunkAcquire(i) ==
    /\ gpc[i] = "acquire"
    /\ SemAcquirable(semHeld, maxParallel)
    /\ semHeld' = semHeld + 1
    /\ gpc' = [gpc EXCEPT ![i] = "call"]
    /\ multiCalls' = multiCalls + 1
    /\ callInputs' = callInputs \cup {chunks[i]}
    /\ UNCHANGED <<bpc, imagePaths, maxChunkSize, maxParallel, loopI, chunks,
                   resultChan, chunkTexts, recvOrder, chunkFailed, synthCalls,
                   synthInput, journeyText, embedRequested, persisted, bret>>
    /\ UNCHANGED pipelineVars
    /\ UNCHANGED auxVars
    /\ UNCHANGED <<batchTaskID, mediaRecords, filePaths>>

\* ollama.go lines 318-319: the call returns (text or error) and the goroutine
\* sends chunkResult{idx, text, err}, which completes while the channel's
\* buffer has room.  idx is the 0-based index of the chunk.
ChunkCallReturn(i) ==
    /\ gpc[i] = "call"
    /\ Len(resultChan) < ResultChanCapacity(chunks)
    /\ \E o \in CallOutcomes :
         /\ resultChan' = Append(resultChan,
               [index |-> i - 1,
                text  |-> IF o = "nil" THEN ExtractTextFromMultipleImages(chunks[i]) ELSE <<>>,
                err   |-> IF o = "nil" THEN "nil" ELSE "inference error"])
         /\ chunkFailed' = IF o = "nil" THEN chunkFailed ELSE chunkFailed \cup {i - 1}
    /\ gpc' = [gpc EXCEPT ![i] = "release"]
    /\ UNCHANGED <<bpc, imagePaths, maxChunkSize, maxParallel, loopI, chunks,
                   semHeld, chunkTexts, recvOrder, multiCalls, callInputs,
                   synthCalls, synthInput, journeyText, embedRequested,
                   persisted, bret>>
    /\ UNCHANGED pipelineVars
    /\ UNCHANGED auxVars
    /\ UNCHANGED <<batchTaskID, mediaRecords, filePaths>>

\* ollama.go line 315: the deferred <-sem releases the semaphore.
ChunkRelease(i) ==
    /\ gpc[i] = "release"
    /\ semHeld' = semHeld - 1
    /\ gpc' = [gpc EXCEPT ![i] = "done"]
    /\ UNCHANGED <<bpc, imagePaths, maxChunkSize, maxParallel, loopI, chunks,
                   resultChan, chunkTexts, recvOrder, multiCalls, callInputs,
                   chunkFailed, synthCalls, synthInput, journeyText,
                   embedRequested, persisted, bret>>
    /\ UNCHANGED pipelineVars
    /\ UNCHANGED auxVars
    /\ UNCHANGED <<batchTaskID, mediaRecords, filePaths>>

\* ollama.go lines 325-331, one iteration of the collecting loop: receive the
\* next result; an error returns at once (part_008 lines 239-241 pass it on),
\* a text is stored at the result's index.
BatchCollect ==
    /\ bpc = "collect"
    /\ Len(recvOrder) < Len(chunks)
    /\ resultChan # <<>>
    /\ LET r == Head(resultChan)
       IN /\ recvOrder' = Append(recvOrder, r.index)
          /\ IF CollectAborts(r.err)
             THEN /\ BatchFail(r.err)
                  /\ UNCHANGED chunkTexts
             ELSE /\ chunkTexts' = [chunkTexts EXCEPT
                                      ![CollectPosition(r.index, Len(recvOrder))] = r.text]
                  /\ UNCHANGED <<bpc, bret>>
    /\ resultChan' = Tail(resultChan)
    /\ UNCHANGED <<imagePaths, maxChunkSize, maxParallel, loopI, chunks, gpc,
                   semHeld, multiCalls, callInputs, chunkFailed, synthCalls,
                   synthInput, journeyText, embedRequested, persisted>>
    /\ UNCHANGED pipelineVars
    /\ UNCHANGED auxVars
    /\ UNCHANGED <<batchTaskID, mediaRecords, filePaths>>

\* ollama.go lines 334-391: all results are in.  A single chunk's text is the
\* final text (lines 334-336); otherwise the synthesis call is issued with the
\* chunk texts and its response is the final text, or it fails.
BatchAfterCollect ==
    /\ bpc = "collect"
    /\ Len(recvOrder) = Len(chunks)
    /\ IF ~NeedsSynthesis(chunkTexts)
       THEN /\ journeyText' = chunkTexts[1]
            /\ bpc' = "embed"
            /\ UNCHANGED <<synthCalls, synthInput, bret>>
       ELSE /\ synthCalls' = synthCalls + 1
            /\ synthInput' = chunkTexts
            /\ \E o \in CallOutcomes :
                 IF o # "nil"
                 THEN /\ BatchFail("synthesis error")
                      /\ UNCHANGED journeyText
                 ELSE /\ journeyText' = SynthesisText(chunkTexts)
                      /\ bpc' = "embed"
                      /\ UNCHANGED bret
    /\ UNCHANGED <<imagePaths, maxChunkSize, maxParallel, loopI, chunks, gpc,
                   semHeld, resultChan, chunkTexts, recvOrder, multiCalls,
                   callInputs, chunkFailed, embedRequested, persisted>>
    /\ UNCHANGED pipelineVars
    /\ UNCHANGED auxVars
    /\ UNCHANGED <<batchTaskID, mediaRecords, filePaths>>

\* part_008 lines 244-247: services.GenerateEmbedding(journeyText).
BatchEmbed ==
    /\ bpc = "embed"
    /\ embedRequested' = TRUE
    /\ \E o \in CallOutcomes :
         IF o # "nil"
         THEN BatchFail("embedding error")
         ELSE bpc' = "persist" /\ UNCHANGED bret
    /\ UNCHANGED <<imagePaths, maxChunkSize, maxParallel, loopI, chunks, gpc,
                   semHeld, resultChan, chunkTexts, recvOrder, multiCalls,
                   callInputs, chunkFailed, synthCalls, synthInput, journeyText,
                   persisted>>
    /\ UNCHANGED pipelineVars
    /\ UNCHANGED auxVars
    /\ UNCHANGED <<batchTaskID, mediaRecords, filePaths>>

\* part_008 lines 250-263: the record the handler creates for the batch.
JourneyEntryLastPath(taskID, paths, text) ==
    [FilePath   |-> paths[Len(paths)],
     Text       |-> text,
     IsBatch    |-> TRUE,
     BatchID    |-> taskID,
     BatchPaths |-> paths]
JourneyEntry(taskID, paths, text) ==
    [FilePath   |-> paths[1],
     Text       |-> text,
     IsBatch    |-> TRUE,
     BatchID    |-> taskID,
     BatchPaths |-> paths]

\* part_008 lines 267-276: the result map the handler returns.
BatchResult(entry, taskID, paths) ==
    [file_path   |-> entry.FilePath,
     text        |-> entry.Text,
     file_count  |-> Len(paths),
     is_batch    |-> TRUE,
     batch_id    |-> taskID,
     batch_paths |-> paths]

\* part_008 lines 253-276: the record of the batch is created and returned.
BatchPersist ==
    /\ bpc = "persist"
    /\ \E o \in CallOutcomes :
         IF o # "nil"
         THEN BatchFail("database error") /\ UNCHANGED <<persisted, mediaRecords>>
         ELSE LET entry == JourneyEntry(batchTaskID, imagePaths, journeyText)
              IN /\ persisted' = TRUE
                 /\ mediaRecords' = Append(mediaRecords, entry)
                 /\ bpc' = "returned"
                 /\ bret' = [err |-> "nil",
                             res |-> BatchResult(entry, batchTaskID, imagePaths)]
    /\ UNCHANGED <<imagePaths, maxChunkSize, maxParallel, loopI, chunks, gpc,
                   semHeld, resultChan, chunkTexts, recvOrder, multiCalls,
                   callInputs, chunkFailed, synthCalls, synthInput, journeyText,
                   embedRequested>>
    /\ UNCHANGED pipelineVars
    /\ UNCHANGED auxVars
    /\ UNCHANGED <<batchTaskID, filePaths>>

\* ------------------------------------------------------------- single-image handler
\* processImageAnalysisTask (part_008 lines 148-185) run by processItems (lines
\* 102-143) on one task of type analyze_image.

\* task.Data["file_path"] after json.Unmarshal into map[string]any: a string
\* (the path, item j of the uploads) or something else (a number, or nothing:
\* the key is missing).
FilePathValues ==
    {[isString |-> TRUE, v |-> j] : j \in ItemCounts} \cup
    {[isString |-> FALSE, v |-> j] : j \in {0, 1}}

\* services.ExtractTextFromImage on success: the text of this file, identified
\* by the file it describes.
ExtractTextFromImage(path) == <<path>>

\* part_008 lines 168-172 and database.DB.Create: the row created, with the
\* primary key the table assigns.
ImageEntryNoText(id, path, text) ==
    [ID |-> id, FilePath |-> path, Text |-> <<>>,
     IsBatch |-> FALSE, BatchID |-> 0, BatchPaths |-> <<>>]
ImageEntry(id, path, text) ==
    [ID |-> id, FilePath |-> path, Text |-> text,
     IsBatch |-> FALSE, BatchID |-> 0, BatchPaths |-> <<>>]

\* part_008 lines 180-184: the result map the handler returns.
ImageResult(entry) ==
    [id |-> entry.ID, file_path |-> entry.FilePath, text |-> entry.Text]

\* The handler returns (res, err).
ImageReturn(err, res) ==
    /\ ipc' = "returned"
    /\ iret' = [err |-> err, res |-> res]

\* processItems lines 104-107: status processing for the task just dequeued.
ImageSetProcessing ==
    /\ ipc = "dequeued"
    /\ status' = SetTaskStatus(status, imageTask.task_id, "processing")
    /\ ipc' = "handler"
    /\ UNCHANGED <<imageTask, icalls, iret, result, mediaRecords>>
    /\ UNCHANGED poolVars
    /\ UNCHANGED batchRunVars
    /\ UNCHANGED frontVars

\* part_008 lines 150-154: the type assertion on task.Data["file_path"]; when it
\* fails the handler returns (nil, nil).
ImageDecode ==
    /\ ipc = "handler"
    /\ IF imageTask.file_path.isString
       THEN ipc' = "extract" /\ UNCHANGED iret
       ELSE ImageReturn(MalformedReturn.err, MalformedReturn.res)
    /\ UNCHANGED <<imageTask, icalls, status, result, mediaRecords>>
    /\ UNCHANGED poolVars
    /\ UNCHANGED batchRunVars
    /\ UNCHANGED frontVars

\* part_008 lines 156-160: services.ExtractTextFromImage(filePath).
ImageExtract ==
    /\ ipc = "extract"
    /\ icalls' = Append(icalls, "extract")
    /\ \E o \in CallOutcomes :
         IF o # "nil"
         THEN ImageReturn("inference error", NilMap)
         ELSE ipc' = "embed" /\ UNCHANGED iret
    /\ UNCHANGED <<imageTask, status, result, mediaRecords>>
    /\ UNCHANGED poolVars
    /\ UNCHANGED batchRunVars
    /\ UNCHANGED frontVars

\* part_008 lines 162-166: services.GenerateEmbedding(text).
ImageEmbed ==
    /\ ipc = "embed"
    /\ icalls' = Append(icalls, "embed")
    /\ \E o \in CallOutcomes :
         IF o # "nil"
         THEN ImageReturn("embedding error", NilMap)
         ELSE ipc' = "persist" /\ UNCHANGED iret
    /\ UNCHANGED <<imageTask, status, result, mediaRecords>>
    /\ UNCHANGED poolVars
    /\ UNCHANGED batchRunVars
    /\ UNCHANGED frontVars

\* part_008 lines 168-184: database.DB.Create(&imageEntry), then the result map.
ImagePersist ==
    /\ ipc = "persist"
    /\ icalls' = Append(icalls, "create")
    /\ \E o \in CallOutcomes :
         IF o # "nil"
         THEN ImageReturn("database error", NilMap) /\ UNCHANGED mediaRecords
         ELSE LET entry == ImageEntry(Len(mediaRecords) + 1, imageTask.file_path.v,
                                      ExtractTextFromImage(imageTask.file_path.v))
              IN /\ mediaRecords' = Append(mediaRecords, entry)
                 /\ ImageReturn("nil", ImageResult(entry))
    /\ UNCHANGED <<imageTask, status, result>>
    /\ UNCHANGED poolVars
    /\ UNCHANGED batchRunVars
    /\ UNCHANGED frontVars

\* processItems lines 125-129 / 136-139: the terminal status of the task.
ImageSetTerminal ==
    /\ ipc = "returned"
    /\ status' = SetTaskStatus(status, imageTask.task_id, TerminalStatus(iret.err))
    /\ ipc' = "storeResult"
    /\ UNCHANGED <<imageTask, icalls, iret, result, mediaRecords>>
    /\ UNCHANGED poolVars
    /\ UNCHANGED batchRunVars
    /\ UNCHANGED frontVars

\* processItems lines 130-134 / 140-142: the result of the task.
ImageStoreResult ==
    /\ ipc = "storeResult"
    /\ result' = StoreTaskResult(result, imageTask.task_id, ResultPayload(iret.err, iret.res))
    /\ ipc' = "recorded"
    /\ UNCHANGED <<imageTask, icalls, iret, status, mediaRecords>>
    /\ UNCHANGED poolVars
    /\ UNCHANGED batchRunVars
    /\ UNCHANGED frontVars

\* ------------------------------------------------------------- batch parameters of an upload
\* uploadImage (part_008 lines 697-761) on a request with batch_analyze=true.

\* The text of a form field: empty (the field is not sent), a decimal integer,
\* an integer followed by other characters ("2x"), or no number at all ("abc").
FormTexts(ints) ==
    {[kind |-> "empty", n |-> 0], [kind |-> "junk", n |-> 0]} \cup
    {[kind |-> "int", n |-> i] : i \in ints} \cup
    {[kind |-> "prefixed", n |-> i] : i \in ints \ (0 - 1)..0}

\* fmt.Sscanf(text, "%d", &target): the count of items stored and the error, and
\* the target afterwards.  A leading integer is stored and counted, whatever
\* follows it; without one nothing is stored and an error is returned.
Sscanf(text, target) ==
    IF text.kind \in {"int", "prefixed"}
    THEN [count |-> 1, err |-> "nil", target |-> text.n]
    ELSE [count |-> 0, err |-> "error", target |-> target]

\* strconv.Atoi(text): the whole text must be a decimal integer.
Atoi(text) ==
    IF text.kind = "int"
    THEN [val |-> text.n, err |-> "nil"]
    ELSE [val |-> 0, err |-> "error"]

\* part_008 lines 700-714: the value placed in the task.  The test val <= 0 is
\* on Sscanf's count, not on the number scanned.
EnqueuedParameter(text, default) ==
    IF text.kind = "empty"
    THEN default
    ELSE LET r == Sscanf(text, default)
         IN IF r.err # "nil" \/ r.count <= 0 THEN default ELSE r.target

\* part_008 lines 745-760: the value reported in the response.
ReportedParameter(text, default) ==
    IF text.kind # "empty" /\ Atoi(text).err = "nil" /\ Atoi(text).val > 0
    THEN Atoi(text).val
    ELSE default

\* part_008 lines 697-725: the handler builds the batch task's data from the
\* form and the configuration and enqueues it.
uploadBatchEnqueue ==
    /\ upl.pc = "request"
    /\ upl' = [upl EXCEPT
                 !.pc = "enqueued",
                 !.task = [max_chunk_size |-> EnqueuedParameter(upl.chunkForm, upl.cfgChunk),
                           max_parallel   |-> EnqueuedParameter(upl.parallelForm, upl.cfgParallel)]]
    /\ UNCHANGED searchResults
    /\ UNCHANGED pipelineVars
    /\ UNCHANGED batchVars
    /\ UNCHANGED imageVars

\* part_008 lines 737-764: the handler builds and sends the response.
uploadBatchRespond ==
    /\ upl.pc = "enqueued"
    /\ upl' = [upl EXCEPT
                 !.pc = "responded",
                 !.response = [max_chunk_size |-> ReportedParameter(upl.chunkForm, upl.cfgChunk),
                               max_parallel   |-> ReportedParameter(upl.parallelForm, upl.cfgParallel)]]
    /\ UNCHANGED searchResults
    /\ UNCHANGED pipelineVars
    /\ UNCHANGED batchVars
    /\ UNCHANGED imageVars

\* ------------------------------------------------------------- search endpoint
\* searchImages (part_008 lines 808-857), the handler of POST /search.

\* A row of image_embeddings as a query scans it: BatchPaths is tagged gorm:"-"
\* (models, part_010 line 34) and is not a column, so it comes back empty.
DbRowKeepsPaths(entry) == entry
DbRow(entry) == [entry EXCEPT !.BatchPaths = <<>>]

\* part_008 lines 839-853 for one row: a batch row with a batch id looks up the
\* batch task's result; when the lookup succeeds, the result is not nil and
\* holds a list under batch_paths, the list's string entries become the row's
\* BatchPaths; in every other case the row is left as scanned.
RecoverBatchPaths(row, lookupErr) ==
    IF row.IsBatch /\ row.BatchID # 0
    THEN LET batchResult == GetTaskResult(row.BatchID)
         IN IF lookupErr = "nil" /\ batchResult # NilMap
               /\ "batch_paths" \in DOMAIN batchResult
            THEN [row EXCEPT !.BatchPaths =
                     StringPaths(FilePathsOf(batchResult.batch_paths).items)]
            ELSE row
    ELSE row

\* One search request.  GenerateEmbedding or the query may fail (400, 500);
\* otherwise every row of the table is within top_k, each lookup of a batch
\* result succeeds or meets an unreachable backend, and the rows are returned
\* with 200.
searchImages ==
    /\ Running
    /\ \/ \E code \in {400, 500} :
            searchResults' = [code |-> code, rows |-> <<>>, lookupFailed |-> {}]
       \/ \E failed \in SUBSET (DOMAIN mediaRecords) :
            searchResults' =
               [code |-> 200,
                rows |-> [i \in DOMAIN mediaRecords |->
                            RecoverBatchPaths(DbRow(mediaRecords[i]),
                                              IF i \in failed THEN "backend unavailable" ELSE "nil")],
                lookupFailed |-> failed]
    /\ UNCHANGED upl
    /\ UNCHANGED pipelineVars
    /\ UNCHANGED batchVars
    /\ UNCHANGED imageVars

\* ------------------------------------------------------------- specifications

Next ==
    \/ \E p \in Producers : Enqueue(p)
    \/ \E p \in Producers : ProducerSetPending(p)
    \/ \E w \in Workers : WorkerSelect(w)
    \/ \E w \in Workers : WorkerDequeueTask(w)
    \/ \E w \in Workers : WorkerDequeueIdle(w)
    \/ \E w \in Workers : WorkerSetProcessing(w)
    \/ \E w \in Workers : WorkerHandler(w)
    \/ \E w \in Workers : WorkerStoreResult(w)
    \/ \E w \in Workers : WorkerSendDone(w)
    \/ \E w \in Workers : WorkerPanicSendDone(w)
    \/ \E w \in Workers : WorkerCrash(w)
    \/ Signal
    \/ ListenerClose
    \/ MainStop
    \/ MainFatal
    \/ StopReturn
    \/ MainReturn

Spec == Init /\ [][Next]_vars

\* A live pool: no termination signal is delivered, the backend is reachable and
\* every handler returns.  The Go scheduler runs every runnable goroutine, so
\* each worker loop and each upload handler past Enqueue keeps taking steps.
WorkerHandlerReturns(w) == WorkerHandler(w) /\ wpc'[w] = "storeResult"

WorkerLive(w) ==
    \/ WorkerSelect(w)
    \/ WorkerDequeueTask(w)
    \/ WorkerDequeueIdle(w)
    \/ WorkerSetProcessing(w)
    \/ WorkerHandlerReturns(w)
    \/ WorkerStoreResult(w)

LiveNext ==
    \/ \E p \in Producers : Enqueue(p)
    \/ \E p \in Producers : ProducerSetPending(p)
    \/ \E w \in Workers : WorkerLive(w)

FairSpec ==
    /\ Init
    /\ [][LiveNext]_vars
    /\ \A w \in Workers : WF_vars(WorkerLive(w))
    /\ \A p \in Producers : WF_vars(ProducerSetPending(p))

\* The live pool with a second kind of caller of queue.Enqueue, one that passes
\* a task type the pool has no handler for.
TypesNext ==
    \/ LiveNext
    \/ \E p \in Producers : EnqueueOtherType(p)

TypesSpec == Init /\ [][TypesNext]_vars

\* One run of the batch handler on a task of every admissible shape, the pool
\* and the queue left aside.
BatchInit ==
    /\ PipelineInit
    /\ bpc = "handler"
    /\ \E n \in ItemCounts : imagePaths = PathsOf(n)
    /\ maxChunkSize \in ChunkSizes
    /\ maxParallel \in ParallelSizes
    /\ batchTaskID \in TaskIds
    /\ filePaths = FilePathsOf(imagePaths)
    /\ BatchLocalsInit
    /\ ImageIdle
    /\ FrontIdle

BatchNext ==
    \/ BatchDirectCall
    \/ BatchEnterParallel
    \/ BatchChunkStep
    \/ BatchSpawn
    \/ \E i \in DOMAIN gpc : ChunkAcquire(i)
    \/ \E i \in DOMAIN gpc : ChunkCallReturn(i)
    \/ \E i \in DOMAIN gpc : ChunkRelease(i)
    \/ BatchCollect
    \/ BatchAfterCollect
    \/ BatchEmbed
    \/ BatchPersist

BatchSpec == BatchInit /\ [][BatchNext]_vars

\* The batch handler with every goroutine scheduled and every inference call
\* returning: the handler's own steps and each chunk goroutine's steps are
\* taken whenever they stay enabled.
BatchHandlerStep ==
    \/ BatchDirectCall
    \/ BatchEnterParallel
    \/ BatchChunkStep
    \/ BatchSpawn
    \/ BatchCollect
    \/ BatchAfterCollect
    \/ BatchEmbed
    \/ BatchPersist

ChunkGoroutine(i) ==
    /\ i \in DOMAIN gpc
    /\ \/ ChunkAcquire(i)
       \/ ChunkCallReturn(i)
       \/ ChunkRelease(i)

FairBatchSpec ==
    /\ BatchInit
    /\ [][BatchNext]_vars
    /\ WF_vars(BatchHandlerStep)
    /\ \A i \in 1..(MaxItems + 1) : WF_vars(ChunkGoroutine(i))

\* The live pool of part_008 lines 1-284 with both upload handlers of the
\* sources as producers: uploadImage and uploadMedia.
MediaNext ==
    \/ LiveNext
    \/ \E p \in Producers : uploadMedia(p)

MediaSpec == Init /\ [][MediaNext]_vars

\* The live pool on a backend that may refuse any single command of the worker
\* loop: BLPOP, the SET of a status, the SET of a result.
FaultNext ==
    \/ LiveNext
    \/ \E w \in Workers : WorkerDequeueError(w)
    \/ \E w \in Workers : WorkerSetProcessingFails(w)
    \/ \E w \in Workers : WorkerTerminalStatusFails(w)
    \/ \E w \in Workers : WorkerStoreResultFails(w)

FaultSpec == Init /\ [][FaultNext]_vars

\* The live pool with records that expire and a caller that reads status and
\* result of any task id at any moment.
ReadNext ==
    \/ LiveNext
    \/ \E t \in TaskIds : ExpireStatus(t)
    \/ \E t \in TaskIds : ExpireResult(t)
    \/ \E t \in TaskIds : CallGetTaskStatus(t)
    \/ \E t \in TaskIds : CallGetTaskResult(t)

ReadSpec == Init /\ [][ReadNext]_vars

\* One task of type analyze_image, of every payload shape, taken by a worker
\* from its dequeue to the stored result.
ImageInit ==
    /\ PipelineInit
    /\ BatchIdle
    /\ ipc = "dequeued"
    /\ imageTask \in [task_id : TaskIds, file_path : FilePathValues]
    /\ icalls = <<>>
    /\ iret = NoReturn
    /\ FrontIdle

ImageNext ==
    \/ ImageSetProcessing
    \/ ImageDecode
    \/ ImageExtract
    \/ ImageEmbed
    \/ ImagePersist
    \/ ImageSetTerminal
    \/ ImageStoreResult

ImageSpec == ImageInit /\ [][ImageNext]_vars

\* One task of a known type with a payload of every shape, well-formed or not,
\* taken by a worker through its handler to the stored result.
BatchPayloadInit ==
    /\ PipelineInit
    /\ bpc = "parse"
    /\ filePaths \in RawFilePaths
    /\ imagePaths = <<>>
    /\ maxChunkSize \in ChunkSizes
    /\ maxParallel \in ParallelSizes
    /\ batchTaskID \in TaskIds
    /\ BatchLocalsInit
    /\ ImageIdle
    /\ FrontIdle

PayloadInit == ImageInit \/ BatchPayloadInit

PayloadNext ==
    \/ ImageNext
    \/ BatchParse
    \/ BatchNext
    \/ BatchTaskSetTerminal
    \/ BatchTaskStoreResult

PayloadSpec == PayloadInit /\ [][PayloadNext]_vars

\* One batch task run and recorded by a worker, its result key expiring at any
\* moment, and search requests served at any moment.
SearchNext ==
    \/ BatchNext
    \/ BatchTaskSetTerminal
    \/ BatchTaskStoreResult
    \/ \E t \in TaskIds : ExpireResult(t)
    \/ searchImages

SearchSpec == BatchInit /\ [][SearchNext]_vars

\* One batch upload with every form text for max_chunk_size and max_parallel,
\* on every configuration (part_008 lines 991-992 set the defaults 3 and 4; the
\* environment may set others, 0 included).
UploadInit ==
    /\ PipelineInit
    /\ BatchIdle
    /\ ImageIdle
    /\ searchResults = NoSearch
    /\ \E cf \in FormTexts(ChunkSizes), pf \in FormTexts(ParallelSizes),
          cc \in 0..MaxChunkSize, cp \in 0..MaxParallel :
          upl = [pc |-> "request", chunkForm |-> cf, parallelForm |-> pf,
                 cfgChunk |-> cc, cfgParallel |-> cp,
                 task |-> [max_chunk_size |-> 0, max_parallel |-> 0],
                 response |-> [max_chunk_size |-> 0, max_parallel |-> 0]]

UploadNext ==
    \/ uploadBatchEnqueue
    \/ uploadBatchRespond

UploadSpec == UploadInit /\ [][UploadNext]_vars

\* ------------------------------------------------------------- claims

Eids == DOMAIN enqLog

\* C1: under a live pool every enqueued task eventually has getStatus return
\* completed or failed, and does not stay in a non-terminal status forever.
C1_EveryTaskReachesTerminal ==
    \A e \in 1..MaxTasks :
        (e \in Eids) ~> (e \in Eids /\ GetTaskStatus(enqLog[e]) \in Terminal)

\* C2: the values a task's status record takes over time form a prefix of
\* pending -> processing -> (completed | failed); the record never moves back.
StatusSuccessors(s) ==
    IF s = "absent" THEN {"pending"}
    ELSE IF s = "pending" THEN {"processing"}
    ELSE IF s = "processing" THEN Terminal
    ELSE {}

C2_StatusOrder ==
    [][\A t \in TaskIds : status'[t] # status[t] => status'[t] \in StatusSuccessors(status[t])]_vars

\* C3: once getStatus has returned completed or failed for a task, every later
\* getStatus and getResult returns the same status and the same payload.
C3_TerminalStable ==
    [][\A t \in TaskIds :
          GetTaskStatus(t) \in Terminal =>
              /\ GetTaskStatus(t)' = GetTaskStatus(t)
              /\ GetTaskResult(t)' = GetTaskResult(t)]_vars

\* C4: FIFO per queue name: a task is never returned by a dequeue before every
\* task enqueued ahead of it on the same queue has been returned by a dequeue.
C4_FIFO ==
    \A j \in DOMAIN deqLog :
        \A a \in 1..(deqLog[j] - 1) :
            \E i \in 1..(j - 1) : deqLog[i] = a

\* C4 witness: two tasks were enqueued and both have been dequeued, the second
\* while the first was still held by the other worker.
C4_Witness ==
    /\ Len(deqLog) = 2
    /\ \E w1, w2 \in Workers :
         /\ w1 # w2
         /\ wtask[w1].eid = 1
         /\ wtask[w2].eid = 2

\* C5: each queue entry is returned by at most one dequeue, no two workers hold
\* the same entry and no entry's handler is invoked twice.
C5_ExclusiveHandOff ==
    /\ \A i, j \in DOMAIN deqLog : i # j => deqLog[i] # deqLog[j]
    /\ \A w1, w2 \in Workers :
         (w1 # w2 /\ wtask[w1] # NoTask) => wtask[w1].eid # wtask[w2].eid
    /\ \A e \in DOMAIN handled : handled[e] <= 1

\* C5 witness: two workers execute the handlers of two different entries at the
\* same time, after both entries sat in the queue together.
C5_Witness ==
    \E w1, w2 \in Workers :
        /\ w1 # w2
        /\ wpc[w1] = "handler"
        /\ wpc[w2] = "handler"
        /\ wtask[w1].eid # wtask[w2].eid

\* C6: any two successful Enqueue calls return different task ids.
C6_TaskIdsUnique ==
    \A i, j \in Eids : i # j => enqLog[i] # enqLog[j]

\* C7: if Stop is called while a worker executes a task's handler, Stop does not
\* return until that handler has returned and the task's terminal status has
\* been written, and all N worker loops have reported on doneChan.
C7_StopWaitsForInFlight ==
    mainPc \in {"stopReturned", "returned"} =>
        /\ midHandlerAtStop \subseteq termWritten
        /\ doneRecv = NumWorkers

\* C8: after a termination signal the controller's shutdown path (its call of
\* Stop) waits for all worker loops to exit and then returns normally, for every
\* interleaving of the listener goroutine with the call of Stop.
C8_GracefulShutdown ==
    mainPc # "waitSignal" =>
        /\ proc \in {"running", "exited"}
        /\ proc = "exited" => \A w \in Workers : wpc[w] = "stopped"

\* C9: when a handler returns an error the worker writes status failed and the
\* error text as result for that task only, and the same loop returns to its
\* select to poll for later tasks; the error never ends the loop.
C9_HandlerErrorIsolated ==
    [][\A w \in Workers :
          /\ (wpc[w] = "handler" /\ wpc'[w] = "storeResult" /\ werr'[w] # "nil") =>
                /\ status'[wtask[w].task_id] = "failed"
                /\ \A t \in TaskIds \ {wtask[w].task_id} : status'[t] = status[t]
          /\ (wpc[w] = "storeResult" /\ werr[w] # "nil" /\ wpc'[w] # "storeResult") =>
                /\ result'[wtask[w].task_id] = [json |-> ErrorMap(werr[w])]
                /\ status' = status
                /\ wpc'[w] = "select"
          /\ (werrored[w] /\ wpc[w] = "select" /\ ~stopClosed) => wpc'[w] \in {"select", "dequeue"}
      ]_vars

\* C9 witness: a worker that has recorded a handler error (status failed, the
\* error text as result) is executing the handler of a later task.
C9_Witness ==
    \E w \in Workers :
        /\ werrored[w]
        /\ wpc[w] = "handler"
        /\ \E e \in Eids : e < wtask[w].eid /\ status[enqLog[e]] = "failed"
                           /\ result[enqLog[e]] = [json |-> ErrorMap("error")]
                           /\ enqLog[e] # wtask[w].task_id

\* C10: a panic inside a handler is recovered at the loop boundary: no worker
\* loop unwinds with a panic and the process is not ended by one.
C10_PanicContained ==
    /\ \A w \in Workers : wpc[w] \notin {"panicDefer", "panicking"}
    /\ proc # "panicHandler"

\* C11: a dequeued task whose type has no registered handler gets status
\* completed and the result "unknown task type" from the worker, never failed;
\* no handler is invoked for it and the loop goes back to its select.
C11_UnknownTypeCompleted ==
    [][\A w \in Workers :
          /\ (wpc[w] = "handler" /\ wtask[w].task_type \notin RegisteredTaskTypes
                 /\ wpc'[w] # "handler") =>
                /\ wpc'[w] = "storeResult"
                /\ status'[wtask[w].task_id] = "completed"
                /\ werr'[w] = "nil"
                /\ wres'[w] = ErrorMap("unknown task type")
                /\ handled' = handled
          /\ (wpc[w] = "storeResult" /\ wtask[w].task_type \notin RegisteredTaskTypes
                 /\ wpc'[w] # "storeResult") =>
                /\ result'[wtask[w].task_id] = [json |-> ErrorMap("unknown task type")]
                /\ status' = status
                /\ wpc'[w] = "select"
      ]_vars

\* C11 witness: a task of an unregistered type was recorded as completed with
\* the flagging result, no handler ran for it, and a worker is executing the
\* handler of a task enqueued after it.
C11_Witness ==
    \E e \in Eids :
        /\ e \in termWritten
        /\ handled[e] = 0
        /\ status[enqLog[e]] = "completed"
        /\ result[enqLog[e]] = [json |-> ErrorMap("unknown task type")]
        /\ \E w \in Workers : wpc[w] = "handler" /\ wtask[w].eid > e

\* C12: whenever getStatus returns completed or failed for a task, getResult
\* returns a non-nil payload: status and result become visible together.
C12_ResultWithTerminalStatus ==
    \A t \in TaskIds : GetTaskStatus(t) \in Terminal => GetTaskResult(t) # NilMap

\* C13: no result record exists for a task while its status record is absent,
\* pending or processing.
C13_ResultAbsentBeforeTerminal ==
    \A t \in TaskIds : status[t] \in {"absent", "pending", "processing"} => result[t] = NoKey

\* C14: a client polling the id of a task whose handler returned an error (the
\* worker has recorded failed and the error text) observes status failed
\* together with a result payload carrying the error text.
C14_FailureVisibleToClient ==
    \A t \in TaskIds :
        (status[t] = "failed" /\ result[t] = [json |-> ErrorMap("error")]) =>
            /\ getTaskStatus(t).status = "failed"
            /\ getTaskStatus(t).result = ErrorMap("error")

\* ------------------------------------------------------------- claims on the batch handler

CeilDiv(n, k) == (n + k - 1) \div k

MinOf(a, b) == IF a < b THEN a ELSE b

RECURSIVE Flatten(_)
Flatten(seqs) == IF seqs = <<>> THEN <<>> ELSE Head(seqs) \o Flatten(Tail(seqs))

\* The chunk goroutines have been started: the chunking loop is over.
FannedOut == gpc # <<>>

\* The handler has a final text in hand: it is past the inference calls.
HasFinalText ==
    \/ bpc \in {"embed", "persist"}
    \/ bpc = "returned" /\ bret.err \in {"nil", "embedding error", "database error"}

\* C15: for N items and maxChunkSize k with 1 <= k < N the partitioning makes
\* exactly ceil(N/k) chunks, chunk i (0-based) is the contiguous items
\* [i*k, min((i+1)*k, N)), every chunk has 1..k items, and the chunks
\* concatenated in index order are the input list.
C15_ChunkPartitioning ==
    (FannedOut /\ 1 <= maxChunkSize /\ maxChunkSize < Len(imagePaths)) =>
        LET N == Len(imagePaths)
            k == maxChunkSize
        IN /\ Len(chunks) = CeilDiv(N, k)
           /\ \A c \in DOMAIN chunks :
                LET lo == (c - 1) * k
                    hi == MinOf(c * k, N)
                IN /\ chunks[c] = [j \in 1..(hi - lo) |-> imagePaths[lo + j]]
                   /\ Len(chunks[c]) >= 1
                   /\ Len(chunks[c]) <= k
           /\ Flatten(chunks) = imagePaths

\* C15 witness: four items were split with chunk size three: a full chunk and a
\* shorter last one.
C15_Witness ==
    /\ FannedOut
    /\ Len(imagePaths) = 4
    /\ maxChunkSize = 3
    /\ Len(chunks) = 2
    /\ Len(chunks[2]) = 1

\* C16: the chunk texts handed to synthesis have the text of chunk i at position
\* i, in whatever order the concurrent chunk calls completed: every text the
\* collector has stored sits at its chunk's position.
C16_OrderPreservingReassembly ==
    /\ \A c \in DOMAIN chunkTexts :
         chunkTexts[c] # <<>> => chunkTexts[c] = ExtractTextFromMultipleImages(chunks[c])
    /\ synthCalls > 0 =>
         /\ Len(synthInput) = Len(chunks)
         /\ \A c \in DOMAIN chunks : synthInput[c] = ExtractTextFromMultipleImages(chunks[c])

\* C16 witness: synthesis was issued after the results arrived out of index order.
C16_Witness ==
    /\ synthCalls = 1
    /\ Len(recvOrder) >= 2
    /\ recvOrder[1] > recvOrder[2]

\* C17: while the chunk goroutines of a batch exist, the number of chunk
\* inference calls in flight never exceeds maxParallel.
C17_BoundedFanOut ==
    FannedOut => Cardinality(InFlight) <= maxParallel

\* C17 witness: maxParallel calls are in flight and another chunk goroutine is
\* waiting for the semaphore.
C17_Witness ==
    /\ maxParallel >= 1
    /\ Cardinality(InFlight) = maxParallel
    /\ \E i \in DOMAIN gpc : gpc[i] = "acquire"

\* C18: if a chunk's inference call has failed, no synthesis call is issued, no
\* embedding is requested, no record is persisted and no text is merged; the
\* batch returns an error, which the worker records as status failed with the
\* error text as result.
C18_FailFastBatch ==
    chunkFailed # {} =>
        /\ synthCalls = 0
        /\ ~embedRequested
        /\ ~persisted
        /\ journeyText = <<>>
        /\ bpc \in {"collect", "returned"}
        /\ bpc = "returned" =>
             /\ bret.err = "inference error"
             /\ bret.res = NilMap
             /\ TerminalStatus(bret.err) = "failed"
             /\ ResultPayload(bret.err, bret.res) = ErrorMap("inference error")

\* C18 witness: the batch returned the error of a failed chunk after it had
\* already collected the text of a chunk that succeeded.
C18_Witness ==
    /\ bpc = "returned"
    /\ bret.err = "inference error"
    /\ chunkFailed # {}
    /\ \E c \in DOMAIN chunkTexts : chunkTexts[c] # <<>>

\* C19: with more than one chunk and every chunk call successful, exactly one
\* synthesis call is issued, only after all chunk results have been collected,
\* with the chunk texts in chunk order as input, and its output is the batch's
\* final text.
C19_SynthesisOnceAfterFanIn ==
    /\ synthCalls <= 1
    /\ synthCalls = 1 =>
         /\ Len(chunks) > 1
         /\ Len(recvOrder) = Len(chunks)
         /\ chunkFailed = {}
         /\ synthInput = [c \in DOMAIN chunks |-> ExtractTextFromMultipleImages(chunks[c])]
    /\ (Len(chunks) > 1 /\ HasFinalText) =>
         /\ synthCalls = 1
         /\ journeyText = SynthesisText(synthInput)

\* C19 witness: three chunks were collected, the synthesis call was issued and
\* the handler holds its output.
C19_Witness ==
    /\ bpc = "embed"
    /\ Len(chunks) = 3
    /\ synthCalls = 1
    /\ journeyText = imagePaths

\* C20: when N <= maxChunkSize exactly one multi-item inference call is issued,
\* with all N items in order; no chunk goroutine is started, no synthesis call
\* is issued, and the call's text is the batch's final text.
C20_SmallBatchDirect ==
    (bpc # "idle" /\ Len(imagePaths) <= maxChunkSize) =>
        /\ ~FannedOut
        /\ chunks = <<>>
        /\ synthCalls = 0
        /\ bpc # "handler" => (multiCalls = 1 /\ callInputs = {imagePaths})
        /\ bpc = "handler" => multiCalls = 0
        /\ HasFinalText => journeyText = ExtractTextFromMultipleImages(imagePaths)

\* C20 witness: a batch of exactly maxChunkSize items, more than one, got its
\* text from the single call.
C20_Witness ==
    /\ bpc = "embed"
    /\ Len(imagePaths) = maxChunkSize
    /\ Len(imagePaths) >= 2
    /\ multiCalls = 1

\* C21: a batch task that completes has persisted exactly one record, with
\* IsBatch true, BatchID the task's id and FilePath the first submitted path,
\* and its task result carries batch_paths, the submitted paths in order.
C21_BatchRecordShape ==
    (bpc = "returned" /\ bret.err = "nil") =>
        /\ Len(mediaRecords) = 1
        /\ mediaRecords[1].IsBatch = TRUE
        /\ mediaRecords[1].BatchID = batchTaskID
        /\ mediaRecords[1].FilePath = imagePaths[1]
        /\ TerminalStatus(bret.err) = "completed"
        /\ ResultPayload(bret.err, bret.res).batch_paths = imagePaths
        /\ Len(ResultPayload(bret.err, bret.res).batch_paths) = Len(imagePaths)
        /\ ResultPayload(bret.err, bret.res).is_batch = TRUE
        /\ ResultPayload(bret.err, bret.res).batch_id = batchTaskID

\* C21 witness: a batch of three items, split in two chunks, completed.
C21_Witness ==
    /\ bpc = "returned"
    /\ bret.err = "nil"
    /\ Len(imagePaths) = 3
    /\ Len(chunks) = 2
    /\ Len(bret.res.batch_paths) = 3

\* ------------------------------------------------------------- claims on queue names, faults and the loop

C27_QueueIndependence ==
    [][/\ \A q \in QueueNames :
            queue'[q] # queue[q] =>
                /\ \A q2 \in QueueNames \ {q} : queue'[q2] = queue[q2]
                /\ \/ queue[q] # <<>> /\ queue'[q] = Tail(queue[q])
                   \/ Len(queue'[q]) = Len(queue[q]) + 1
                        /\ SubSeq(queue'[q], 1, Len(queue[q])) = queue[q]
       /\ \A q \in QueueNames : \A i \in DOMAIN queue'[q] :
            enqQueue'[queue'[q][i].eid] = q
       /\ \A w \in Workers :
            wtask'[w] # NoTask => enqQueue'[wtask'[w].eid] = WorkerQueueName
      ]_vars

\* C27 witness: a task sits on media_processing, enqueued before the task a
\* worker has dequeued from image_processing and is handling.
C27_Witness ==
    /\ Len(queue[MediaProcessingQueue]) = 1
    /\ queue[MediaProcessingQueue][1].eid = 1
    /\ \E w \in Workers : wpc[w] = "handler" /\ wtask[w].eid = 2

\* C23: a setStatus or storeResult that fails inside the worker loop is retried,
\* not dropped: the worker goes past the terminal status write only with the
\* terminal status recorded, and past the result write only with the result
\* recorded.
C23_BackendWritesRetried ==
    [][\A w \in Workers :
          /\ (wpc[w] = "handler" /\ wpc'[w] = "storeResult") =>
                status'[wtask[w].task_id] = TerminalStatus(werr'[w])
          /\ (wpc[w] = "storeResult" /\ wpc'[w] # "storeResult") =>
                result'[wtask[w].task_id] = [json |-> ResultPayload(werr[w], wres[w])]
      ]_vars

\* C24: when Dequeue returns an error, or no task, the worker loop neither exits
\* nor writes any status, result or queue entry; it goes back to its select and,
\* stop not being signalled, attempts the dequeue again.
C24_DequeueErrorsTransient ==
    [][\A w \in Workers :
          /\ wpc[w] = "dequeue" => wpc'[w] \in {"dequeue", "select", "setProcessing"}
          /\ (wpc[w] = "dequeue" /\ wpc'[w] = "select") =>
                /\ status' = status
                /\ result' = result
                /\ queue' = queue
                /\ wtask'[w] = NoTask
          /\ (wpc[w] = "select" /\ ~stopClosed) => wpc'[w] \in {"select", "dequeue"}
      ]_vars

\* C24 witness: a worker's Dequeue has returned an error while a task waits in
\* the queue; the worker is back at its select and the task is still pending.
C24_Witness ==
    \E w \in Workers :
        /\ deqSeen[w] = "error"
        /\ wpc[w] = "select"
        /\ queue[WorkerQueueName] # <<>>
        /\ status[queue[WorkerQueueName][1].task_id] = "pending"

\* C25: a Dequeue that finds its queue empty for the whole timeout returns
\* (nil, nil): it does return (the call is not blocked for ever), it reports no
\* error, and it leaves every queue and every status and result record as it was.
C25_IdleDequeueNotAnError ==
    /\ [](\A w \in Workers :
            (Running /\ wpc[w] = "dequeue" /\ queue[WorkerQueueName] = <<>>) =>
                ENABLED WorkerDequeueIdle(w))
    /\ [][\A w \in Workers :
            (wpc[w] = "dequeue" /\ wpc'[w] # "dequeue" /\ queue[WorkerQueueName] = <<>>) =>
                /\ wtask'[w] = NoTask
                /\ deqSeen'[w] = "idle"
                /\ queue' = queue
                /\ status' = status
                /\ result' = result
         ]_vars

\* C25 witness: a worker's Dequeue has returned (nil, nil) while a task of an
\* earlier upload is recorded completed with its result.
C25_Witness ==
    \E w \in Workers : \E t \in TaskIds :
        /\ deqSeen[w] = "idle"
        /\ wpc[w] = "select"
        /\ status[t] = "completed"
        /\ result[t] # NoKey

\* C26: for a task id whose record was never created or has expired,
\* GetTaskStatus returns "unknown" with no error and GetTaskResult returns nil
\* with no error, and neither call creates or modifies a record or a queue.
C26_AbsentRecordsReadUnknown ==
    [][resp' # resp =>
          /\ status' = status
          /\ result' = result
          /\ queue' = queue
          /\ resp'.err = "nil"
          /\ (resp'.status # "none" /\ status[resp'.task_id] = "absent") =>
                resp'.status = "unknown"
          /\ (resp'.result # NoResult /\ result[resp'.task_id] = NoKey) =>
                resp'.result = NilMap
      ]_vars

\* C26 witness: the status of a task whose record has expired after the task
\* was enqueued (it still waits in the queue) was read as unknown.
C26_Witness ==
    /\ resp.status = "unknown"
    /\ resp.err = "nil"
    /\ status[resp.task_id] = "absent"
    /\ \E i \in DOMAIN queue[WorkerQueueName] : queue[WorkerQueueName][i].task_id = resp.task_id

\* C28: for every task a worker dequeues, the worker writes status processing,
\* then invokes the handler, then on its return writes one terminal status, then
\* one result payload; the handler is not invoked before processing is written
\* and no dequeue is attempted before the result is written.
C28_PerTaskProtocol ==
    /\ [](\A w \in Workers :
            /\ wpc[w] \in {"select", "dequeue"} => (wlog[w] = <<>> /\ wtask[w] = NoTask)
            /\ wpc[w] = "handler" =>
                  (wlog[w] = <<"processing">> /\ handled[wtask[w].eid] = 0)
            /\ wpc[w] = "storeResult" =>
                  (wlog[w] = <<"processing", "handler", "terminal">>
                     /\ handled[wtask[w].eid] = 1))
    /\ [][\A w \in Workers :
            /\ (wpc[w] = "setProcessing" /\ wpc'[w] # "setProcessing") =>
                  /\ wpc'[w] = "handler"
                  /\ status'[wtask[w].task_id] = "processing"
            /\ (wpc[w] = "handler" /\ wpc'[w] = "storeResult") =>
                  /\ wtask[w].eid \notin termWritten
                  /\ wtask[w].eid \in termWritten'
                  /\ status'[wtask[w].task_id] = TerminalStatus(werr'[w])
                  /\ result' = result
            /\ (wpc[w] = "storeResult" /\ wpc'[w] # "storeResult") =>
                  /\ result'[wtask[w].task_id] = [json |-> ResultPayload(werr[w], wres[w])]
                  /\ status' = status
                  /\ wpc'[w] = "select"
         ]_vars

\* C28 witness: a worker has taken the second task through processing, handler
\* and terminal status and is about to store its result, the first task having
\* gone through all four steps.
C28_Witness ==
    \E w \in Workers :
        /\ wpc[w] = "storeResult"
        /\ wlog[w] = <<"processing", "handler", "terminal">>
        /\ Len(deqLog) = 2
        /\ wtask[w].eid = deqLog[2]
        /\ deqLog[1] \in termWritten
        /\ \A v \in Workers \ {w} : wtask[v] = NoTask

\* C29: once stopChan is closed, a worker that reaches its select exits without
\* another Dequeue; a worker that was inside Dequeue at the close may still
\* receive a task, and it exits only after that task's terminal status is
\* written.
C29_NoNewPollsAfterStop ==
    [][\A w \in Workers :
          /\ (stopClosed /\ wpc[w] = "select" /\ wpc'[w] # "select") =>
                wpc'[w] = "deferSend"
          /\ (stopClosed /\ wpc'[w] # wpc[w] /\ wpc'[w] \in {"deferSend", "panicDefer"}) =>
                wtask'[w] = NoTask
      ]_vars

\* C30: a task removed from its queue by Dequeue is in no queue ever again; if
\* the worker holding it stops before the terminal status write (its handler
\* panicked), no terminal status is ever written for the task, its status record
\* stays processing or pending (for a task id no other task shares), and no
\* other worker holds or handles it.
C30_NoRedelivery ==
    /\ \A q \in QueueNames : \A i \in DOMAIN queue[q] : \A j \in DOMAIN deqLog :
          queue[q][i].eid # deqLog[j]
    /\ \A w \in Workers :
          wpc[w] \in {"panicDefer", "panicking"} =>
              /\ wtask[w].eid \notin termWritten
              /\ handled[wtask[w].eid] = 1
              /\ \A v \in Workers \ {w} : wtask[v] # NoTask => wtask[v].eid # wtask[w].eid
              /\ \A i, j \in DOMAIN deqLog :
                    (deqLog[i] = wtask[w].eid /\ deqLog[j] = wtask[w].eid) => i = j
              /\ (\A e \in Eids \ {wtask[w].eid} : enqLog[e] # wtask[w].task_id) =>
                    status[wtask[w].task_id] \in {"processing", "pending"}

\* C30 witness: a worker's handler has panicked on the first task, which stays
\* at processing, while the other worker has dequeued the second task and
\* written its terminal status.
C30_Witness ==
    \E w \in Workers :
        /\ wpc[w] = "panicDefer"
        /\ Len(deqLog) = 2
        /\ deqLog[1] = wtask[w].eid
        /\ deqLog[2] \in termWritten
        /\ status[wtask[w].task_id] = "processing"

\* ------------------------------------------------------------- claims on the handlers' payloads and calls

\* C31: for a task with a string file_path the single-image handler calls
\* media->text, then text->embedding, then the record creation, in that order; a
\* failure at a step returns that error with no later step made and no record
\* persisted, and the task ends failed; on success the result payload holds the
\* persisted record's id, file path and text.
C31_SingleHandlerPipeline ==
    /\ \E n \in 0..3 : icalls = SubSeq(<<"extract", "embed", "create">>, 1, n)
    /\ (ipc \in {"returned", "storeResult", "recorded"} /\ imageTask.file_path.isString) =>
          IF iret.err # "nil"
          THEN /\ mediaRecords = <<>>
               /\ iret.err = "inference error" => icalls = <<"extract">>
               /\ iret.err = "embedding error" => icalls = <<"extract", "embed">>
               /\ iret.err = "database error" => icalls = <<"extract", "embed", "create">>
               /\ ipc \in {"storeResult", "recorded"} => status[imageTask.task_id] = "failed"
               /\ ipc = "recorded" => result[imageTask.task_id] = [json |-> ErrorMap(iret.err)]
          ELSE /\ icalls = <<"extract", "embed", "create">>
               /\ Len(mediaRecords) = 1
               /\ mediaRecords[1].FilePath = imageTask.file_path.v
               /\ mediaRecords[1].Text = ExtractTextFromImage(imageTask.file_path.v)
               /\ iret.res.id = mediaRecords[1].ID
               /\ iret.res.file_path = mediaRecords[1].FilePath
               /\ iret.res.text = mediaRecords[1].Text
               /\ ipc \in {"storeResult", "recorded"} => status[imageTask.task_id] = "completed"
               /\ ipc = "recorded" => result[imageTask.task_id] = [json |-> iret.res]

\* C31 witness: the embedding call failed after a successful extraction; the
\* task is recorded failed with the error and no record exists.
C31_Witness ==
    /\ ipc = "recorded"
    /\ imageTask.file_path.isString
    /\ iret.err = "embedding error"
    /\ icalls = <<"extract", "embed">>
    /\ status[imageTask.task_id] = "failed"
    /\ mediaRecords = <<>>

\* C32 (its case): the chunked path is entered only with more items than
\* maxChunkSize, so whenever the collecting loop runs there are at least two
\* chunks; the single-chunk return of ollama.go lines 334-336 is never taken.
C32_ChunkedPathHasTwoChunks ==
    bpc = "collect" => (Len(chunks) >= 2 /\ NeedsSynthesis(chunkTexts))

\* C39: a task of a known type whose payload has no usable path (file_path not
\* a string; file_paths not a list or without a string entry) makes its handler
\* return (nil, nil): the worker records completed and a null result, no
\* external service is called and no record is persisted; in a list with string
\* entries the other entries are dropped and the strings kept in their order.
C39_MalformedPayloadCompletes ==
    /\ (ipc \in {"returned", "storeResult", "recorded"} /\ ~imageTask.file_path.isString) =>
          /\ iret.err = "nil"
          /\ iret.res = NilMap
          /\ icalls = <<>>
          /\ mediaRecords = <<>>
          /\ ipc \in {"storeResult", "recorded"} => status[imageTask.task_id] = "completed"
          /\ ipc = "recorded" => result[imageTask.task_id] = [json |-> NilMap]
    /\ (bpc \in {"returned", "storeResult", "recorded"}
          /\ (~filePaths.isList \/ \A j \in DOMAIN filePaths.items : ~filePaths.items[j].isString)) =>
          /\ bret.err = "nil"
          /\ bret.res = NilMap
          /\ multiCalls = 0
          /\ synthCalls = 0
          /\ ~embedRequested
          /\ ~persisted
          /\ mediaRecords = <<>>
          /\ bpc \in {"storeResult", "recorded"} => status[batchTaskID] = "completed"
          /\ bpc = "recorded" => result[batchTaskID] = [json |-> NilMap]
    /\ (bpc \notin {"idle", "parse"}
          /\ filePaths.isList /\ \E j \in DOMAIN filePaths.items : filePaths.items[j].isString) =>
          /\ Len(imagePaths) = Cardinality({j \in DOMAIN filePaths.items : filePaths.items[j].isString})
          /\ \A j \in DOMAIN imagePaths :
                \E k \in DOMAIN filePaths.items :
                    /\ filePaths.items[k].isString
                    /\ filePaths.items[k].v = imagePaths[j]
          /\ \A i, j \in DOMAIN imagePaths : i < j => imagePaths[i] < imagePaths[j]

\* C39 witness: a batch task whose file_paths list holds two entries, neither a
\* string, is recorded completed with a null result.
C39_Witness ==
    /\ bpc = "recorded"
    /\ filePaths.isList
    /\ Len(filePaths.items) = 2
    /\ \A j \in DOMAIN filePaths.items : ~filePaths.items[j].isString
    /\ status[batchTaskID] = "completed"
    /\ result[batchTaskID] = [json |-> NilMap]
    /\ multiCalls = 0

\* A second case of C39: in a list of three entries the middle one is not a
\* string; the batch runs on the first and the third.
C39_DroppedEntryReached ==
    /\ bpc = "recorded"
    /\ Len(filePaths.items) = 3
    /\ imagePaths = <<1, 3>>
    /\ bret.err = "nil"

\* C33: a search that gets its rows returns them all with 200; a batch row
\* carries the batch_paths list stored in the result of the task named by its
\* batch id, and empty batch_paths when that result is absent (not stored yet,
\* or expired) or its lookup failed.
C33_BatchPathsRecovered ==
    [][(searchResults' # searchResults /\ searchResults'.code \notin {400, 500}) =>
          /\ searchResults'.code = 200
          /\ Len(searchResults'.rows) = Len(mediaRecords)
          /\ \A i \in DOMAIN mediaRecords :
                LET rec == mediaRecords[i]
                    row == searchResults'.rows[i]
                IN /\ row.FilePath = rec.FilePath
                   /\ row.Text = rec.Text
                   /\ row.BatchID = rec.BatchID
                   /\ (rec.IsBatch /\ result[rec.BatchID] = NoKey) => row.BatchPaths = <<>>
                   /\ (rec.IsBatch /\ i \in searchResults'.lookupFailed) => row.BatchPaths = <<>>
                   /\ (rec.IsBatch /\ result[rec.BatchID] # NoKey
                         /\ i \notin searchResults'.lookupFailed) =>
                         row.BatchPaths = result[rec.BatchID].json.batch_paths
      ]_vars

\* C33 witness: the result of the batch task has expired and a search returned
\* the batch's row with empty batch_paths.
C33_Witness ==
    /\ searchResults.code = 200
    /\ Len(searchResults.rows) = 1
    /\ searchResults.lookupFailed = {}
    /\ searchResults.rows[1].IsBatch
    /\ searchResults.rows[1].BatchPaths = <<>>
    /\ bpc = "recorded"
    /\ result[batchTaskID] = NoKey

\* A second case of C33: the result is stored and the row carries the three
\* paths of the batch.
C33_PathsReached ==
    /\ searchResults.code = 200
    /\ Len(searchResults.rows) = 1
    /\ searchResults.rows[1].BatchPaths = <<1, 2, 3>>
    /\ result[batchTaskID] # NoKey

\* ------------------------------------------------------------- claims on the batch parameters

\* C40: with positive configured defaults, the max_chunk_size and max_parallel
\* placed in the enqueued batch task are positive whatever the form holds, and
\* they are the values the upload response reports.
C40_OverridesValidated ==
    (upl.pc \in {"enqueued", "responded"} /\ upl.cfgChunk > 0 /\ upl.cfgParallel > 0) =>
        /\ upl.task.max_chunk_size > 0
        /\ upl.task.max_parallel > 0
        /\ upl.pc = "responded" =>
              /\ upl.response.max_chunk_size = upl.task.max_chunk_size
              /\ upl.response.max_parallel = upl.task.max_parallel

\* ------------------------------------------------------------- claims on the pool's channels and bounds

\* C34: stopChan is closed at most once: no execution reaches the panic of
\* closing a channel that is already closed.
C34_StopChanClosedOnce ==
    proc # "panicClose"

\* C35: the chunk-splitting loop terminates for every chunk size: each
\* iteration that appends a chunk moves i forward, towards len(imagePaths).
C35_ChunkLoopAdvances ==
    [][(bpc = "chunking" /\ chunks' # chunks) => loopI' > loopI]_vars

\* C36: the fan-out/fan-in never deadlocks: once the chunk goroutines are
\* started, the collector eventually leaves its receiving loop (with every
\* result, or on the first error).
C36_FanInCompletes ==
    (bpc = "collect") ~> (bpc # "collect")

\* C37: no chunk goroutine is stranded after fail-fast: a goroutine's send on
\* the result channel always finds room in the buffer, and after the collector
\* has returned on an error every goroutine finishes and every semaphore slot
\* is released.
C37_NoStrandedGoroutine ==
    /\ [](\A i \in DOMAIN gpc :
            gpc[i] = "call" => Len(resultChan) < ResultChanCapacity(chunks))
    /\ []((bpc = "returned" /\ bret.err = "inference error" /\ chunks # <<>>) =>
            <>(semHeld = 0 /\ \A i \in DOMAIN gpc : gpc[i] = "done"))

\* The collector has returned on the first error of a batch of two or more
\* chunks; the other goroutines have finished since, their results are left in
\* the channel's buffer, and no slot is held.
C37_Witness ==
    /\ bpc = "returned"
    /\ bret.err = "inference error"
    /\ Len(chunks) >= 2
    /\ Len(recvOrder) = 1
    /\ resultChan # <<>>
    /\ \A i \in DOMAIN gpc : gpc[i] = "done"
    /\ semHeld = 0

\* The worker loops whose goroutine has run its deferred done send.
LoopsExited == {w \in Workers : wpc[w] \in {"stopped", "panicking"}}

\* C38: at most N handlers execute at the same time, a loop holds at most one
\* dequeued and unfinished task (it dequeues only when it holds none, and no
\* task is held by two loops), and the done reports sent are as many as the
\* loops that have exited, never more than N.
C38_PoolConcurrencyBound ==
    /\ [](Cardinality({w \in Workers : wpc[w] = "handler"}) <= NumWorkers)
    /\ [](\A w1, w2 \in Workers :
            (w1 # w2 /\ wtask[w1] # NoTask /\ wtask[w2] # NoTask) =>
                wtask[w1].eid # wtask[w2].eid)
    /\ [][\A w \in Workers :
            (wtask'[w] # wtask[w] /\ wtask'[w] # NoTask) => wtask[w] = NoTask]_vars
    /\ [](doneRecv = Cardinality(LoopsExited) /\ doneRecv <= NumWorkers)

\* One loop has exited and its done report has been received, while the other
\* loop is executing the handler of the one task it holds.
C38_Witness ==
    \E w1, w2 \in Workers :
        /\ wpc[w1] = "stopped"
        /\ doneRecv = 1
        /\ wpc[w2] = "handler"
        /\ wtask[w2] # NoTask

====
